---- MODULE Spec2Model ----
(***************************************************************************)
(* State-machine model of TicketGenerator                                  *)
(* (src/src/generators/ticket_generator.py) and of the Ticket / Sprint     *)
(* records of src/src/models/ticket.py.                                    *)
(*                                                                         *)
(* Python objects are identified by their id.  A ticket id "EPIC-7" is the *)
(* pair <<"EPIC", 7>>; a sprint id is <<"SPRINT", k>>.  Optional id and    *)
(* datetime fields hold the pair None when they are Python's None.  Dates  *)
(* are pairs <<"day", d>> with d a whole number of days.                   *)
(*                                                                         *)
(* Calls to the content provider (self.llm) return text that no modelled   *)
(* field depends on; summary and description are not part of the records.  *)
(* reporter_id / assignee_id are random members of team_members; only the  *)
(* emptiness of team_members decides anything, so the ids are not stored.  *)
(* self.teams is filled at construction from a file that may be missing or *)
(* empty; self.current_initiative is None until set_product_initiative.    *)
(***************************************************************************)
EXTENDS Integers, Sequences, FiniteSets, TLC

\* ------------------------------------------------------------------ bounds
\* Direct calls are explored while the generator holds at most MaxTickets tickets.
MaxTickets == 2
\* Largest num_tickets argument handed to generate_sprint_tickets.
MaxNumTickets == 5
\* Largest number of sprints the generator holds.
MaxSprints == 2
\* Direct edge-creating calls are explored while fewer than MaxEdges edges exist.
MaxEdges == 2
\* Direct sprint assignments are explored while the sprint lists hold fewer ids.
MaxSprintLen == 2
\* The clock runs from day 0 to day MaxNow.
MaxNow == 1
\* generate_sprint_tickets is explored while the generator holds at most MaxBacklog tickets.
MaxBacklog == 7
\* Chains of dependencies are explored among at most MaxDependents tasks ...
MaxDependents == 3
\* ... while the depends_on lists hold fewer than MaxDependencyEdges ids.
MaxDependencyEdges == 3
\* the lines of a bug description
MaxLines == 4

\* ------------------------------------------------------- program constants
InitialTicketCounter == 1
InitialSprintCounter == 1
SprintDurationDays == 14
MaxDependencies == 2
MaxImplementers == 3
MinEpicsPerSprint == 1
MaxEpicsPerSprint == 2
MinBlockedDays == 1
MaxBlockedDays == 5
MinStoriesPerSprint == 2
MaxStoriesPerSprint == 4

None == <<"None", 0>>
NoneStr == "None"

\* models/ticket.py enums
TicketType == {"Epic", "Story", "Task", "Sub-task", "Bug"}
TicketStatus == {"To Do", "In Progress", "In Review", "Blocked", "Done"}
SprintStatus == {"Planned", "Active", "Completed", "Cancelled"}
Component == {"Frontend", "Backend", "Database", "Infrastructure", "Security", "Testing"}
TicketRelationType ==
    {"blocks", "blocked by", "clones", "cloned by", "duplicates", "duplicated by",
     "relates to", "implements", "implemented by", "depends on", "required for"}

\* relation_type.value.replace(" ", "_")
AttrOf ==
    [r \in TicketRelationType |->
        CASE r = "blocked by" -> "blocked_by"
          [] r = "cloned by" -> "cloned_by"
          [] r = "duplicated by" -> "duplicated_by"
          [] r = "relates to" -> "relates_to"
          [] r = "implemented by" -> "implemented_by"
          [] r = "depends on" -> "depends_on"
          [] r = "required for" -> "required_for"
          [] OTHER -> r]

\* the reverse_relations table of _create_relationship
reverse_relations ==
    [r \in {"blocks", "clones", "duplicates", "implements", "depends on"} |->
        CASE r = "blocks" -> "blocked by"
          [] r = "clones" -> "cloned by"
          [] r = "duplicates" -> "duplicated by"
          [] r = "implements" -> "implemented by"
          [] r = "depends on" -> "required for"]

\* the fixed reason pool of _create_blocking_issue
blocking_reasons ==
    << "Waiting for external API documentation",
       "Pending security review",
       "Infrastructure upgrade required",
       "Dependent service not yet available",
       "Awaiting client feedback",
       "Technical debt needs to be addressed first",
       "Resource constraints" >>

\* random.randint ranges of the factories
EpicPoints == 8..13
StoryPoints == 3..8
TaskPoints == 2..5
BugPoints == 1..3
\* the values LLMGenerator.generate_subtask can return
SubtaskPoints == {1, 2, 3, 5, 8, 13, 21}

\* ------------------------------------------------------------------- state
VARIABLES
    team_members,   \* self.team_members (the ids)
    teams,          \* self.teams (the ids)
    current_initiative,  \* self.current_initiative, NoneStr while it is None
    epics, stories, tasks, subtasks, bugs,  \* the five collections, id -> ticket
    sprints,        \* self.sprints, id -> sprint
    ticket_counter, sprint_counter,
    now,            \* datetime.now(), in days
    raised,         \* the exception the last call ended with, NoneStr if it returned
    returned,       \* the list the last call returned, if it returned one
    called,         \* the sprint_id argument of the generate_sprint_tickets call
                    \* that ended last, None after any other call
    created_tickets,  \* push_to_jira: the JIRA key of each ticket created in JIRA
    issue_links       \* push_to_jira: the issue links created in JIRA, in order

dicts == <<epics, stories, tasks, subtasks, bugs>>
jira == <<created_tickets, issue_links>>
vars == <<team_members, teams, current_initiative, epics, stories, tasks, subtasks, bugs, sprints,
          ticket_counter, sprint_counter, now, raised, returned, called,
          created_tickets, issue_links>>

\* ----------------------------------------------------------------- helpers
Range(s) == {s[i] : i \in 1..Len(s)}

Min2(a, b) == IF a < b THEN a ELSE b

Least(S) == CHOOSE x \in S : \A y \in S : x <= y

Greatest(S) == CHOOSE x \in S : \A y \in S : x >= y

\* The two ends of a range of random values.
Ends(S) == {Least(S), Greatest(S)}

\* Sequences of k distinct elements of S: the results of random.sample(S, k).
Samples(S, k) ==
    {s \in [1..k -> S] : \A i, j \in 1..k : i /= j => s[i] /= s[j]}

\* get_all_tickets: the five dicts merged
get_all_tickets == epics @@ stories @@ tasks @@ subtasks @@ bugs

TicketIds == DOMAIN get_all_tickets

\* Ticket(...) with the defaults of models/ticket.py
NewTicket(type, status, component, points, epic_link, parent_ticket) ==
    [ type |-> type, status |-> status, components |-> <<component>>,
      story_points |-> points, epic_link |-> epic_link,
      parent_ticket |-> parent_ticket, sprint_id |-> None,
      blocks |-> <<>>, blocked_by |-> <<>>, depends_on |-> <<>>,
      required_for |-> <<>>, clones |-> <<>>, cloned_by |-> <<>>,
      duplicates |-> <<>>, duplicated_by |-> <<>>, implements |-> <<>>,
      implemented_by |-> <<>>, relationship_notes |-> <<>>,
      blocking_reason |-> NoneStr, blocked_since |-> None,
      child_stories |-> <<>> ]

\* ------------------------------------------------- the generator as a value
\* The mutable fields of one TicketGenerator.  Every method below is an operator
\* from such a record (and the method's arguments and random draws) to the
\* record after the call; `ret` is the value the call returned.
Gen ==
    [ epics |-> epics, stories |-> stories, tasks |-> tasks, subtasks |-> subtasks,
      bugs |-> bugs, sprints |-> sprints, ticket_counter |-> ticket_counter,
      sprint_counter |-> sprint_counter, raised |-> NoneStr, ret |-> None ]

Set(G) ==
    /\ epics' = G.epics
    /\ stories' = G.stories
    /\ tasks' = G.tasks
    /\ subtasks' = G.subtasks
    /\ bugs' = G.bugs
    /\ sprints' = G.sprints
    /\ ticket_counter' = G.ticket_counter
    /\ sprint_counter' = G.sprint_counter
    /\ raised' = G.raised

Tickets(G) == G.epics @@ G.stories @@ G.tasks @@ G.subtasks @@ G.bugs

Stored(dict, T) == [i \in DOMAIN dict |-> T[i]]

\* The generator after the ticket objects took the values they have in T.
Put(G, T) ==
    [G EXCEPT !.epics = Stored(@, T), !.stories = Stored(@, T), !.tasks = Stored(@, T),
              !.subtasks = Stored(@, T), !.bugs = Stored(@, T)]

Raise(G, exception) == [G EXCEPT !.raised = exception]

\* isinstance(ticket, Epic)
IsEpic(ticket) == ticket.type = "Epic"

\* ------------------------------------------------------------- the factories
\* _assign_team_member raises when there is no team member.
NoTeamMember == team_members = {}

\* _generate_epic_description calls initiative.get(...) on self.current_initiative
\* unless it is a str: on None that raises.
NoInitiative == current_initiative = NoneStr

generate_epic(G, component, points) ==
    LET epic_id == <<"EPIC", G.ticket_counter>>
        G1 == [G EXCEPT !.ticket_counter = @ + 1]
    IN  IF NoTeamMember THEN Raise(G1, "ValueError")
        ELSE IF NoInitiative THEN Raise(G1, "AttributeError")
        ELSE [G1 EXCEPT
                !.epics = (epic_id :> NewTicket("Epic", "In Progress", component,
                                                points, None, None)) @@ @,
                !.ret = epic_id]

\* generate_story that also links the epic back to the new story
StoryAdoptingEpic(G, epic, component, points) ==
    LET story_id == <<"STORY", G.ticket_counter>>
        G1 == [G EXCEPT !.ticket_counter = @ + 1]
    IN  IF NoTeamMember THEN Raise(G1, "ValueError")
        ELSE IF epic = None THEN Raise(G1, "AttributeError")
        ELSE [G1 EXCEPT
                !.stories = (story_id :> NewTicket("Story", "In Progress", component,
                                                   points, epic, None)) @@ @,
                !.epics[epic].epic_link = story_id,
                !.ret = story_id]

\* generate_story that links the story to an epic that is not created yet
StoryUnderFutureEpic(G, epic, component, points) ==
    LET story_id == <<"STORY", G.ticket_counter>>
        G1 == [G EXCEPT !.ticket_counter = @ + 1]
    IN  IF NoTeamMember THEN Raise(G1, "ValueError")
        ELSE IF epic = None THEN Raise(G1, "AttributeError")
        ELSE [G1 EXCEPT
                !.stories = (story_id :> NewTicket("Story", "In Progress", component,
                                                   points, <<"EPIC", G1.ticket_counter>>,
                                                   None)) @@ @,
                !.ret = story_id]

\* epic is the id of an Epic, or None
generate_story(G, epic, component, points) ==
    LET story_id == <<"STORY", G.ticket_counter>>
        G1 == [G EXCEPT !.ticket_counter = @ + 1]
    IN  IF NoTeamMember THEN Raise(G1, "ValueError")
        ELSE IF epic = None THEN Raise(G1, "AttributeError")
        ELSE [G1 EXCEPT
                !.stories = (story_id :> NewTicket("Story", "In Progress", component,
                                                   points, epic, None)) @@ @,
                !.ret = story_id]

\* generate_task that forgets to advance ticket_counter
TaskUnderStaleCounter(G, component, points) ==
    LET task_id == <<"TASK", G.ticket_counter>>
    IN  IF NoTeamMember THEN Raise(G, "ValueError")
        ELSE [G EXCEPT
                !.tasks = (task_id :> NewTicket("Task", "In Progress", component,
                                                points, None, None)) @@ @,
                !.ret = task_id]

generate_task(G, component, points) ==
    LET task_id == <<"TASK", G.ticket_counter>>
        G1 == [G EXCEPT !.ticket_counter = @ + 1]
    IN  IF NoTeamMember THEN Raise(G1, "ValueError")
        ELSE [G1 EXCEPT
                !.tasks = (task_id :> NewTicket("Task", "In Progress", component,
                                                points, None, None)) @@ @,
                !.ret = task_id]

\* generate_subtask with an optional parent_ticket: no validation error
SubtaskWithoutValidation(G, task, component, points) ==
    LET subtask_id == <<"SUBTASK", G.ticket_counter>>
        G1 == [G EXCEPT !.ticket_counter = @ + 1]
    IN  IF NoTeamMember THEN Raise(G1, "ValueError")
        ELSE [G1 EXCEPT
                !.subtasks = (subtask_id :> NewTicket("Sub-task", "In Progress", component,
                                                      points, None, task)) @@ @,
                !.ret = subtask_id]

\* task is the id of a Task, or None; Subtask(parent_ticket=None) fails validation
generate_subtask(G, task, component, points) ==
    LET subtask_id == <<"SUBTASK", G.ticket_counter>>
        G1 == [G EXCEPT !.ticket_counter = @ + 1]
    IN  IF NoTeamMember THEN Raise(G1, "ValueError")
        ELSE IF task = None THEN Raise(G1, "ValidationError")
        ELSE [G1 EXCEPT
                !.subtasks = (subtask_id :> NewTicket("Sub-task", "In Progress", component,
                                                      points, None, task)) @@ @,
                !.ret = subtask_id]

\* ------------------------------------------------------ the bug description
\* The lines a description returned by the content provider is made of: empty
\* and blank lines, text with and without surrounding blanks, and the headers
\* the extraction looks for.
DescriptionLines ==
    {"", "   ", "Open the page", "  It fails  ",
     "Steps to Reproduce:", "**Current Behavior:**", "Actual Behavior:",
     "Expected Behavior:"}

\* A bug report with the three sections, as the prompt asks for it.
BugReport ==
    <<"Steps to Reproduce:", "Open the page", "**Current Behavior:**", "  It fails  ",
      "Expected Behavior:", "Open the page">>

\* line.strip()
strip(line) ==
    CASE line = "   " -> ""
      [] line = "  It fails  " -> "It fails"
      [] OTHER -> line

\* The section a line opens, by the `in` tests of the loop in their order;
\* None for a line that holds no header.
SectionOf(line) ==
    IF line = "Steps to Reproduce:" THEN "steps"
    ELSE IF line \in {"**Current Behavior:**", "Actual Behavior:"} THEN "actual"
    ELSE IF line = "Expected Behavior:" THEN "expected"
    ELSE NoneStr

default_steps_to_reproduce ==
    <<"1. Navigate to the feature", "2. Perform the action", "3. Observe the error">>
default_actual_behavior == <<"The system is not behaving as expected.">>
default_expected_behavior == <<"The system should work according to the specifications.">>

\* The loop over the lines of the description.  E holds steps_to_reproduce (a
\* list of lines) and actual_behavior and expected_behavior, each a text kept as
\* the sequence of the pieces appended to it.
RECURSIVE ExtractionLoop(_, _, _, _)
ExtractionLoop(lines, k, current_section, E) ==
    IF k > Len(lines) THEN E
    ELSE LET line == lines[k]
         IN  IF SectionOf(line) /= NoneStr
             THEN ExtractionLoop(lines, k + 1, SectionOf(line), E)
             ELSE IF current_section = "steps" /\ strip(line) /= ""
             THEN ExtractionLoop(lines, k + 1, current_section,
                      [E EXCEPT !.steps_to_reproduce = Append(@, strip(line))])
             ELSE IF current_section = "actual" /\ strip(line) /= ""
             THEN ExtractionLoop(lines, k + 1, current_section,
                      [E EXCEPT !.actual_behavior = @ \o <<strip(line), "\n">>])
             ELSE IF current_section = "expected" /\ strip(line) /= ""
             THEN ExtractionLoop(lines, k + 1, current_section,
                      [E EXCEPT !.expected_behavior = @ \o <<strip(line), "\n">>])
             ELSE ExtractionLoop(lines, k + 1, current_section, E)

\* text.strip() of a text kept as its pieces: the line breaks at its end go
RECURSIVE StripText(_)
StripText(text) ==
    IF text /= <<>> /\ text[Len(text)] = "\n"
    THEN StripText(SubSeq(text, 1, Len(text) - 1))
    ELSE text

\* the extraction without the defaults for the fields that came out empty
ExtractionWithoutDefaults(bug_description) ==
    LET E == ExtractionLoop(bug_description, 1, NoneStr,
                            [steps_to_reproduce |-> <<>>, actual_behavior |-> <<>>,
                             expected_behavior |-> <<>>])
    IN  [description |-> bug_description,
         steps_to_reproduce |-> E.steps_to_reproduce,
         actual_behavior |-> StripText(E.actual_behavior),
         expected_behavior |-> StripText(E.expected_behavior)]

\* The fields generate_bug extracts from the lines of bug_description, with
\* the default of each field that came out empty.
Extraction(bug_description) ==
    LET E == ExtractionLoop(bug_description, 1, NoneStr,
                            [steps_to_reproduce |-> <<>>, actual_behavior |-> <<>>,
                             expected_behavior |-> <<>>])
        actual_behavior == IF E.actual_behavior = <<>> THEN default_actual_behavior
                           ELSE E.actual_behavior
        expected_behavior == IF E.expected_behavior = <<>> THEN default_expected_behavior
                             ELSE E.expected_behavior
    IN  [description |-> bug_description,
         steps_to_reproduce |-> IF E.steps_to_reproduce = <<>>
                                THEN default_steps_to_reproduce
                                ELSE E.steps_to_reproduce,
         actual_behavior |-> StripText(actual_behavior),
         expected_behavior |-> StripText(expected_behavior)]

\* generate_bug that stores the bug before it looks for an actor
BugStoredBeforeAssignment(G, component, points, bug_description) ==
    LET bug_id == <<"BUG", G.ticket_counter>>
        G1 == [G EXCEPT
                !.ticket_counter = @ + 1,
                !.bugs = (bug_id :> (NewTicket("Bug", "In Progress", component,
                                               points, None, None)
                                     @@ Extraction(bug_description))) @@ @]
    IN  IF NoTeamMember THEN Raise(G1, "ValueError")
        ELSE [G1 EXCEPT !.ret = bug_id]

\* bug_description: the lines of the text the content provider returned
generate_bug(G, component, points, bug_description) ==
    LET bug_id == <<"BUG", G.ticket_counter>>
        G1 == [G EXCEPT !.ticket_counter = @ + 1]
    IN  IF NoTeamMember THEN Raise(G1, "ValueError")
        ELSE [G1 EXCEPT
                !.bugs = (bug_id :> (NewTicket("Bug", "In Progress", component,
                                               points, None, None)
                                     @@ Extraction(bug_description))) @@ @,
                !.ret = bug_id]

\* ------------------------------------------------------------------ sprints
NewSprint(team_id, status, start_date, end_date) ==
    [ team_id |-> team_id, status |-> status, tickets |-> <<>>,
      start_date |-> start_date, end_date |-> end_date,
      story_points_committed |-> 0, story_points_completed |-> 0 ]

\* generate_id("SPRINT"): a uuid4 prefix, taken to be an id no sprint has yet
generate_id(G) == <<"SPRINT", G.sprint_counter>>

RECURSIVE SprintLoop(_, _, _, _)
SprintLoop(G, team_id, num_sprints, i) ==
    IF i >= num_sprints THEN G
    ELSE LET start_date == now - SprintDurationDays * (num_sprints - i)
             sprint == NewSprint(team_id,
                                 IF i < num_sprints - 1 THEN "Completed" ELSE "Active",
                                 <<"day", start_date>>,
                                 <<"day", start_date + SprintDurationDays>>)
         IN  SprintLoop([G EXCEPT !.sprints = (generate_id(G) :> sprint) @@ @,
                                  !.sprint_counter = @ + 1],
                        team_id, num_sprints, i + 1)

\* generate_sprints_for_team that registers the sprints before it looks the team up
SprintsBeforeValidation(G, team_id, num_sprints) ==
    IF team_id \notin teams
    THEN Raise(SprintLoop(G, team_id, num_sprints, 0), "ValueError")
    ELSE SprintLoop(G, team_id, num_sprints, 0)

generate_sprints_for_team(G, team_id, num_sprints) ==
    IF team_id \notin teams THEN Raise(G, "ValueError")
    ELSE SprintLoop(G, team_id, num_sprints, 0)

\* assign_ticket_to_sprint that rolls the ticket's points up into
\* story_points_completed and forgets story_points_committed
AssignCompletedOnly(G, ticket, sprint) ==
    LET T == Tickets(G)
    IN  IF IsEpic(T[ticket]) THEN G
        ELSE LET G1 == Put(G, [T EXCEPT ![ticket].sprint_id = sprint])
             IN  IF sprint \in DOMAIN G1.sprints
                 THEN [G1 EXCEPT !.sprints[sprint].tickets = Append(@, ticket),
                                 !.sprints[sprint].story_points_completed =
                                        @ + T[ticket].story_points]
                 ELSE G1

\* assign_ticket_to_sprint that sets sprint_id and leaves the sprint's list alone
AssignWithoutAppend(G, ticket, sprint) ==
    LET T == Tickets(G)
    IN  IF IsEpic(T[ticket]) THEN G
        ELSE Put(G, [T EXCEPT ![ticket].sprint_id = sprint])

\* assign_ticket_to_sprint without the isinstance(ticket, Epic) test
AssignAnyTicket(G, ticket, sprint) ==
    LET T == Tickets(G)
        G1 == Put(G, [T EXCEPT ![ticket].sprint_id = sprint])
    IN  IF sprint \in DOMAIN G1.sprints
        THEN [G1 EXCEPT !.sprints[sprint].tickets = Append(@, ticket)]
        ELSE G1

\* assign_ticket_to_sprint that makes the ticket the only one of the sprint
AssignReplacingList(G, ticket, sprint) ==
    LET T == Tickets(G)
    IN  IF IsEpic(T[ticket]) THEN G
        ELSE LET G1 == Put(G, [T EXCEPT ![ticket].sprint_id = sprint])
             IN  IF sprint \in DOMAIN G1.sprints
                 THEN [G1 EXCEPT !.sprints[sprint].tickets = <<ticket>>]
                 ELSE G1

\* sprint is the id of the Sprint object handed in
assign_ticket_to_sprint(G, ticket, sprint) ==
    LET T == Tickets(G)
    IN  IF IsEpic(T[ticket]) THEN G
        ELSE LET G1 == Put(G, [T EXCEPT ![ticket].sprint_id = sprint])
             IN  IF sprint \in DOMAIN G1.sprints
                 THEN [G1 EXCEPT !.sprints[sprint].tickets = Append(@, ticket)]
                 ELSE G1

\* --------------------------------------------------------------- the graph
\* `if note:` is false for None and for the empty string
Truthy(note) == note /= NoneStr /\ note /= ""

\* _create_relationship that records the reverse side under the forward type
LinkReverseUnderForward(T, source, target, relation_type, note) ==
    LET forward_attr == AttrOf[relation_type]
        T1 == [T EXCEPT ![source][forward_attr] = Append(@, target)]
        T2 == [T1 EXCEPT ![target][forward_attr] = Append(@, source)]
    IN  IF Truthy(note)
        THEN [T2 EXCEPT ![source].relationship_notes =
                            (<<forward_attr, target>> :> note) @@ @]
        ELSE T2

\* _create_relationship on the ticket objects T; source and target are ids
Link(T, source, target, relation_type, note) ==
    LET forward_attr == AttrOf[relation_type]
        reverse_attr == AttrOf[reverse_relations[relation_type]]
        T1 == [T EXCEPT ![source][forward_attr] = Append(@, target)]
        T2 == [T1 EXCEPT ![target][reverse_attr] = Append(@, source)]
    IN  IF Truthy(note)
        THEN [T2 EXCEPT ![source].relationship_notes =
                            (<<forward_attr, target>> :> note) @@ @]
        ELSE T2

_create_relationship(G, source, target, relation_type, note) ==
    IF relation_type \notin DOMAIN reverse_relations THEN Raise(G, "KeyError")
    ELSE Put(G, Link(Tickets(G), source, target, relation_type, note))

\* the loop of _create_dependencies without its test of dep.depends_on
RECURSIVE DependOnUnguarded(_, _, _, _)
DependOnUnguarded(T, ticket, dependencies, k) ==
    IF k > Len(dependencies) THEN T
    ELSE LET dep == dependencies[k]
             T1 == [T EXCEPT ![ticket].depends_on = Append(@, dep)]
         IN  DependOnUnguarded([T1 EXCEPT ![dep].blocks = Append(@, ticket)],
                               ticket, dependencies, k + 1)

\* the body of the loop of _create_dependencies
RECURSIVE DependOn(_, _, _, _)
DependOn(T, ticket, dependencies, k) ==
    IF k > Len(dependencies) THEN T
    ELSE LET dep == dependencies[k]
         IN  IF ticket \notin Range(T[dep].depends_on)
             THEN LET T1 == [T EXCEPT ![ticket].depends_on = Append(@, dep)]
                  IN  DependOn([T1 EXCEPT ![dep].blocks = Append(@, ticket)],
                               ticket, dependencies, k + 1)
             ELSE DependOn(T, ticket, dependencies, k + 1)

\* random.sample(available_tickets, num) with num = randint(1, min(2, len))
DependencySamples(available_tickets) ==
    UNION { { [k \in 1..num |-> available_tickets[pos[k]]] :
                pos \in Samples(1..Len(available_tickets), num) } :
            num \in 1..Min2(MaxDependencies, Len(available_tickets)) }

\* a reaches b along 1 to n depends_on edges
RECURSIVE DependsOnTransitively(_, _, _, _)
DependsOnTransitively(T, a, b, n) ==
    /\ n > 0
    /\ \/ b \in Range(T[a].depends_on)
       \/ \E c \in Range(T[a].depends_on) : DependsOnTransitively(T, c, b, n - 1)

\* _create_dependencies that refuses every dependency that would close a cycle
\* of any length
DependenciesKeptAcyclic(G, ticket, available_tickets, draw, dependencies) ==
    IF available_tickets = <<>> THEN G
    ELSE IF draw
    THEN LET T == Tickets(G)
             allowed == SelectSeq(dependencies,
                            LAMBDA dep : ~DependsOnTransitively(T, dep, ticket,
                                                                Cardinality(DOMAIN T)))
         IN  Put(G, DependOn(T, ticket, allowed, 1))
    ELSE G

\* _create_dependencies without the test for an empty list: random.randint(1, 0)
\* raises ValueError
DependenciesWithoutEmptyTest(G, ticket, available_tickets, draw, dependencies) ==
    IF draw
    THEN IF available_tickets = <<>> THEN Raise(G, "ValueError")
         ELSE Put(G, DependOn(Tickets(G), ticket, dependencies, 1))
    ELSE G

\* draw: random.random() < dependency_probability; dependencies: the sample
_create_dependencies(G, ticket, available_tickets, draw, dependencies) ==
    IF available_tickets = <<>> THEN G
    ELSE IF draw THEN Put(G, DependOn(Tickets(G), ticket, dependencies, 1))
    ELSE G

\* _create_blocking_issue that forgets blocked_since
BlockingReasonOnly(G, ticket, draw, reason, days) ==
    IF draw
    THEN Put(G, [Tickets(G) EXCEPT ![ticket].status = "Blocked",
                                   ![ticket].blocking_reason = blocking_reasons[reason]])
    ELSE G

\* _create_blocking_issue that adds the days instead of subtracting them
BlockingInTheFuture(G, ticket, draw, reason, days) ==
    IF draw
    THEN Put(G, [Tickets(G) EXCEPT ![ticket].status = "Blocked",
                                   ![ticket].blocking_reason = blocking_reasons[reason],
                                   ![ticket].blocked_since = <<"day", now + days>>])
    ELSE G

\* _create_blocking_issue that puts the ticket back In Progress when the draw fails
BlockingOrResuming(G, ticket, draw, reason, days) ==
    IF draw
    THEN Put(G, [Tickets(G) EXCEPT ![ticket].status = "Blocked",
                                   ![ticket].blocking_reason = blocking_reasons[reason],
                                   ![ticket].blocked_since = <<"day", now - days>>])
    ELSE Put(G, [Tickets(G) EXCEPT ![ticket].status = "In Progress"])

\* draw: random.random() < blocking_probability; reason: an index of the pool;
\* days: random.randint(1, 5)
_create_blocking_issue(G, ticket, draw, reason, days) ==
    IF draw
    THEN Put(G, [Tickets(G) EXCEPT ![ticket].status = "Blocked",
                                   ![ticket].blocking_reason = blocking_reasons[reason],
                                   ![ticket].blocked_since = <<"day", now - days>>])
    ELSE G

CloneNote(component) ==
    CASE component = "Frontend" -> "Similar functionality needed in Frontend"
      [] component = "Backend" -> "Similar functionality needed in Backend"
      [] component = "Database" -> "Similar functionality needed in Database"
      [] component = "Infrastructure" -> "Similar functionality needed in Infrastructure"
      [] component = "Security" -> "Similar functionality needed in Security"
      [] component = "Testing" -> "Similar functionality needed in Testing"

DuplicateNote == "Exact same issue reported separately"

\* f"Technical implementation of {story.summary}"
ImplementsNote == "Technical implementation of the story"

\* the clone filter without its test of the components
CloneCandidatesOfAnyComponent(T, tickets, ticket) ==
    {t \in Range(tickets) : t /= ticket}

\* the candidate filters of _handle_clones_and_duplicates
clone_candidates(T, tickets, ticket) ==
    LET other_components == Component \ Range(T[ticket].components)
    IN  IF other_components /= {} /\ tickets /= <<>>
        THEN {t \in Range(tickets) :
                /\ t /= ticket
                /\ Range(T[t].components) \cap other_components /= {}}
        ELSE {}

duplicate_candidates(T, tickets, ticket) ==
    {t \in Range(tickets) :
        /\ t /= ticket
        /\ T[t].type = T[ticket].type
        /\ Range(T[t].components) = Range(T[ticket].components)}

\* One iteration of the loop of _handle_clones_and_duplicates, for `ticket`.
\* clone_draw / duplicate_draw: the two random.random() tests; clone_ticket /
\* duplicate_ticket: the random.choice among the candidates (None if there is none).
ClonesAndDuplicates(G, tickets, ticket, clone_draw, clone_ticket, duplicate_draw, duplicate_ticket) ==
    LET T == Tickets(G)
        T1 == IF /\ clone_draw
                 /\ Len(T[ticket].components) = 1
                 /\ clone_candidates(T, tickets, ticket) /= {}
              THEN Link(T, ticket, clone_ticket, "clones",
                        CloneNote(T[clone_ticket].components[1]))
              ELSE T
        T2 == IF duplicate_draw /\ duplicate_candidates(T1, tickets, ticket) /= {}
              THEN Link(T1, ticket, duplicate_ticket, "duplicates", DuplicateNote)
              ELSE T1
    IN  Put(G, T2)

\* What random.random() and random.choice leave to chance in one iteration:
\* None stands for a failed draw, and for a successful draw that finds no
\* candidate, which does the same.
CloneChoices(T, tickets, ticket) ==
    {None} \cup (IF Len(T[ticket].components) = 1
                 THEN clone_candidates(T, tickets, ticket) ELSE {})

DuplicateChoices(T, tickets, ticket) == {None} \cup duplicate_candidates(T, tickets, ticket)

\* the candidate filter of _handle_implementations
implement_candidates(T, tasks_, story) ==
    {t \in Range(tasks_) :
        /\ t /= story
        /\ Range(T[t].components) \cap Range(T[story].components) /= {}}

RECURSIVE Implement(_, _, _, _)
Implement(T, story, implementers, k) ==
    IF k > Len(implementers) THEN T
    ELSE Implement(Link(T, implementers[k], story, "implements", ImplementsNote),
                   story, implementers, k + 1)

\* random.sample(implement_candidates, randint(1, min(3, len))); the empty
\* sample stands for a failed draw and for a draw that finds no candidate.
ImplementerSamples(T, tasks_, story) ==
    LET candidates == implement_candidates(T, tasks_, story)
    IN  {<<>>} \cup UNION { Samples(candidates, num) :
                            num \in 1..Min2(MaxImplementers, Cardinality(candidates)) }

\* One iteration of the loop of _handle_implementations, for `story`.
Implementations(G, tasks_, story, draw, implementers) ==
    IF draw /\ implement_candidates(Tickets(G), tasks_, story) /= {}
    THEN Put(G, Implement(Tickets(G), story, implementers, 1))
    ELSE G

\* The generators _handle_clones_and_duplicates(tickets) can end with, from
\* those (Gs) it can be in before the i-th iteration.  The candidate filters
\* read types and components, which no iteration changes.
RECURSIVE ClonesLoop(_, _, _)
ClonesLoop(Gs, tickets, i) ==
    IF i > Len(tickets) THEN Gs
    ELSE ClonesLoop(
            UNION { { ClonesAndDuplicates(G, tickets, tickets[i], c /= None, c, d /= None, d) :
                        c \in CloneChoices(Tickets(G), tickets, tickets[i]),
                        d \in DuplicateChoices(Tickets(G), tickets, tickets[i]) } :
                    G \in Gs },
            tickets, i + 1)

_handle_clones_and_duplicates(G, tickets) == ClonesLoop({G}, tickets, 1)

RECURSIVE ImplementationsLoop(_, _, _, _)
ImplementationsLoop(Gs, stories_, tasks_, i) ==
    IF i > Len(stories_) THEN Gs
    ELSE ImplementationsLoop(
            UNION { { Implementations(G, tasks_, stories_[i], implementers /= <<>>, implementers) :
                        implementers \in ImplementerSamples(Tickets(G), tasks_, stories_[i]) } :
                    G \in Gs },
            stories_, tasks_, i + 1)

_handle_implementations(G, stories_, tasks_) == ImplementationsLoop({G}, stories_, tasks_, 1)

\* ------------------------------------------------ generate_sprint_tickets
\* int(num_tickets * 0.4), int(num_tickets * 0.3), int(num_tickets * 0.2) and the rest
num_stories(num_tickets) == (num_tickets * 4) \div 10
num_tasks(num_tickets) == (num_tickets * 3) \div 10
num_subtasks(num_tickets) == (num_tickets * 2) \div 10
num_bugs(num_tickets) ==
    num_tickets - (num_stories(num_tickets) + num_tasks(num_tickets) + num_subtasks(num_tickets))

\* The story points drawn while a backlog is generated: one value of each range.
BacklogPoints(S) == {Least(S)}

\* The generators one factory call of the loop `phase` can leave: the epic of a
\* story and the parent of a subtask are random.choice among those registered;
\* without a task the subtask loop creates nothing (ret stays None).
FactoryCall(G, phase) ==
    CASE phase = "epics" ->
            {generate_epic(G, "Backend", p) : p \in BacklogPoints(EpicPoints)}
      [] phase = "stories" ->
            IF G.epics /= <<>>
            THEN {generate_story(G, e, "Backend", p) :
                    e \in DOMAIN G.epics, p \in BacklogPoints(StoryPoints)}
            ELSE {generate_story(G, None, "Backend", p) : p \in BacklogPoints(StoryPoints)}
      [] phase = "tasks" ->
            {generate_task(G, "Backend", p) : p \in BacklogPoints(TaskPoints)}
      [] phase = "subtasks" ->
            IF G.tasks /= <<>>
            THEN {generate_subtask(G, t, "Backend", p) :
                    t \in DOMAIN G.tasks, p \in BacklogPoints(SubtaskPoints)}
            ELSE {G}
      [] phase = "bugs" ->
            {generate_bug(G, "Backend", p, BugReport) : p \in BacklogPoints(BugPoints)}

\* A call in progress: the generator G and the local list `tickets`.
\* One iteration of a creating loop: the new ticket is assigned to the sprint
\* and appended to `tickets`; an exception ends the call.
Iteration(P, sprint, phase) ==
    IF P.G.raised /= NoneStr THEN {P}
    ELSE { IF G1.raised /= NoneStr \/ G1.ret = None
           THEN [G |-> G1, tickets |-> P.tickets]
           ELSE [G |-> [assign_ticket_to_sprint(G1, G1.ret, sprint) EXCEPT !.ret = None],
                 tickets |-> Append(P.tickets, G1.ret)] :
           G1 \in FactoryCall(P.G, phase) }

\* for _ in range(count)
RECURSIVE Loop(_, _, _, _)
Loop(Ps, sprint, phase, count) ==
    IF count <= 0 THEN Ps
    ELSE Loop(UNION {Iteration(P, sprint, phase) : P \in Ps}, sprint, phase, count - 1)

\* The end of generate_sprint_tickets: the dependencies of tickets[0] on
\* tickets[1:], clones and duplicates, implementations.
Wiring(P) ==
    IF P.G.raised /= NoneStr THEN {P}
    ELSE LET head == Head(P.tickets)
             rest == Tail(P.tickets)
             T == Tickets(P.G)
             stories_ == SelectSeq(P.tickets, LAMBDA t : T[t].type = "Story")
             tasks_ == SelectSeq(P.tickets, LAMBDA t : T[t].type = "Task")
             G1s == {P.G} \cup
                    (IF rest = <<>> THEN {}
                     ELSE {_create_dependencies(P.G, head, rest, TRUE, deps) :
                             deps \in DependencySamples(rest)})
             G2s == UNION {_handle_clones_and_duplicates(G1, P.tickets) : G1 \in G1s}
             G3s == UNION {_handle_implementations(G2, stories_, tasks_) : G2 \in G2s}
         IN  {[G |-> G3, tickets |-> P.tickets] : G3 \in G3s}

\* Every outcome of generate_sprint_tickets(sprint_id, team_id, num_tickets): the
\* generator it leaves and the list it returns.
generate_sprint_tickets(G, sprint_id, team_id, num_tickets) ==
    IF sprint_id \notin DOMAIN G.sprints \/ team_id \notin teams
    THEN {[G |-> Raise(G, "ValueError"), tickets |-> <<>>]}
    ELSE LET P0 == {[G |-> G, tickets |-> <<>>]}
             P1 == UNION {Loop(P0, sprint_id, "epics", num_epics) :
                            num_epics \in MinEpicsPerSprint..MaxEpicsPerSprint}
             P2 == Loop(P1, sprint_id, "stories", num_stories(num_tickets))
             P3 == Loop(P2, sprint_id, "tasks", num_tasks(num_tickets))
             P4 == Loop(P3, sprint_id, "subtasks", num_subtasks(num_tickets))
             P5 == Loop(P4, sprint_id, "bugs", num_bugs(num_tickets))
         IN  UNION {Wiring(P) : P \in P5}

\* ---------------------------------------------- generate_ticket_hierarchy
\* `for component in Component`: the order of the enum
ComponentOrder ==
    <<"Frontend", "Backend", "Database", "Infrastructure", "Security", "Testing">>

\* `for team in self.teams.values()`, from the j-th team on.  The argument
\* len(sprint_tickets) of the first call of the inner loop reads the local
\* sprint_tickets before anything was assigned to it: UnboundLocalError.
RECURSIVE TeamsLoop(_, _, _, _)
TeamsLoop(G, team_order, stories_per_sprint, j) ==
    IF j > Len(team_order) THEN G
    ELSE LET G1 == generate_sprints_for_team(G, team_order[j], stories_per_sprint)
         IN  IF G1.raised /= NoneStr THEN G1
             ELSE IF stories_per_sprint > 0 THEN Raise(G1, "UnboundLocalError")
             ELSE TeamsLoop(G1, team_order, stories_per_sprint, j + 1)

\* The outer loop from the i-th component on; P.tickets is result["epics"].
RECURSIVE ComponentsLoop(_, _, _, _)
ComponentsLoop(P, team_order, stories_per_sprint, i) ==
    IF i > Len(ComponentOrder) \/ P.G.raised /= NoneStr THEN P
    ELSE LET G1 == generate_epic(P.G, ComponentOrder[i], Least(EpicPoints))
         IN  IF G1.raised /= NoneStr THEN [G |-> G1, tickets |-> P.tickets]
             ELSE ComponentsLoop(
                    [G |-> TeamsLoop([G1 EXCEPT !.ret = None], team_order,
                                     stories_per_sprint, 1),
                     tickets |-> Append(P.tickets, G1.ret)],
                    team_order, stories_per_sprint, i + 1)

\* team_order: list(self.teams.values()); stories_per_sprint: the value drawn
\* at construction, which no other method reads.  The other four lists of the
\* result are only filled from sprint tickets, which are never generated.
generate_ticket_hierarchy(G, team_order, stories_per_sprint) ==
    ComponentsLoop([G |-> G, tickets |-> <<>>], team_order, stories_per_sprint, 1)

\* ------------------------------------------------------------------- calls
\* A Sprint object and a team id the generator does not hold.
ForeignSprint == <<"SPRINT", 0>>
TeamArgs == {"t1", "t2"}

\* Lists of distinct elements of S.
Lists(S) == UNION {Samples(S, k) : k \in 0..Cardinality(S)}

RECURSIVE SumLen(_, _)
SumLen(T, ids) ==
    IF ids = {} THEN 0
    ELSE LET t == CHOOSE x \in ids : TRUE
         IN  SumLen(T, ids \ {t}) +
             Len(T[t].blocks) + Len(T[t].clones) + Len(T[t].duplicates) +
             Len(T[t].implements) + Len(T[t].depends_on)

EdgeCount == SumLen(get_all_tickets, TicketIds)

\* No caller catches the generator's exceptions: an exception ends the run.
Ready == raised = NoneStr

\* Direct calls are explored on generators that hold few tickets.
Small == Ready /\ ticket_counter <= MaxTickets + 1
MayCreate == Ready /\ ticket_counter <= MaxTickets
MayLink == Small /\ EdgeCount < MaxEdges

Returns(G) ==
    /\ Set(G)
    /\ returned' = <<>>
    /\ called' = None
    /\ UNCHANGED <<jira, team_members, teams, current_initiative, now>>

\* -------------------------------------------------------------------- Init
Init ==
    /\ team_members \in {{}, {"m1"}}
    /\ teams \in {{}, {"t1"}}
    /\ current_initiative = NoneStr
    /\ epics = <<>> /\ stories = <<>> /\ tasks = <<>> /\ subtasks = <<>> /\ bugs = <<>>
    /\ sprints = <<>>
    /\ ticket_counter = InitialTicketCounter
    /\ sprint_counter = InitialSprintCounter
    /\ now = 0
    /\ raised = NoneStr
    /\ returned = <<>>
    /\ called = None
    /\ created_tickets = <<>>
    /\ issue_links = <<>>

Tick ==
    /\ Ready
    /\ now < MaxNow
    /\ now' = now + 1
    /\ UNCHANGED <<jira, team_members, teams, current_initiative, dicts, sprints, ticket_counter,
                   sprint_counter, raised, returned, called>>

SetProductInitiative(initiative_name) ==
    /\ Ready
    /\ current_initiative' = initiative_name
    /\ returned' = <<>>
    /\ called' = None
    /\ UNCHANGED <<jira, team_members, teams, dicts, sprints, ticket_counter,
                   sprint_counter, now, raised>>

GenerateEpic(component, points) ==
    MayCreate /\ Returns(generate_epic(Gen, component, points))

GenerateStory(epic, component, points) ==
    MayCreate /\ Returns(generate_story(Gen, epic, component, points))

GenerateTask(component, points) ==
    MayCreate /\ Returns(generate_task(Gen, component, points))

GenerateSubtask(task, component, points) ==
    MayCreate /\ Returns(generate_subtask(Gen, task, component, points))

GenerateBug(component, points) ==
    MayCreate /\ Returns(generate_bug(Gen, component, points, BugReport))

\* generate_bug as the first call of a run, on the description the content
\* provider returned.
GenerateBugFrom(component, points, bug_description) ==
    /\ Ready
    /\ ticket_counter = InitialTicketCounter
    /\ Returns(generate_bug(Gen, component, points, bug_description))

GenerateSprintsForTeam(team_id, num_sprints) ==
    /\ Ready
    /\ sprint_counter + num_sprints <= MaxSprints + 1
    /\ Returns(generate_sprints_for_team(Gen, team_id, num_sprints))

AssignTicketToSprint(ticket, sprint) ==
    /\ Small
    /\ sprint \in DOMAIN sprints => Len(sprints[sprint].tickets) < MaxSprintLen
    /\ Returns(assign_ticket_to_sprint(Gen, ticket, sprint))

CreateRelationship(source, target, relation_type, note) ==
    MayLink /\ Returns(_create_relationship(Gen, source, target, relation_type, note))

CreateDependencies(ticket, available_tickets, draw, dependencies) ==
    MayLink /\ Returns(_create_dependencies(Gen, ticket, available_tickets, draw, dependencies))

CreateBlockingIssue(ticket, draw, reason, days) ==
    Small /\ Returns(_create_blocking_issue(Gen, ticket, draw, reason, days))

HandleClonesAndDuplicates(tickets) ==
    MayLink /\ \E G \in _handle_clones_and_duplicates(Gen, tickets) : Returns(G)

HandleImplementations(stories_, tasks_) ==
    MayLink /\ \E G \in _handle_implementations(Gen, stories_, tasks_) : Returns(G)

GenerateSprintTickets(sprint_id, team_id, num_tickets) ==
    /\ Small
    /\ ticket_counter + MaxEpicsPerSprint + num_tickets <= MaxBacklog + 1
    /\ \E P \in generate_sprint_tickets(Gen, sprint_id, team_id, num_tickets) :
          /\ Set(P.G)
          /\ returned' = P.tickets
    /\ called' = sprint_id
    /\ UNCHANGED <<jira, team_members, teams, current_initiative, now>>

\* ---------------------------------------------- generate_ticket_activities
\* TicketStatus.value as the code points of its characters, which is what the
\* comparison of two str values reads.
StatusValue ==
    [status \in TicketStatus |->
        CASE status = "To Do" -> <<84, 111, 32, 68, 111>>
          [] status = "In Progress" -> <<73, 110, 32, 80, 114, 111, 103, 114, 101, 115, 115>>
          [] status = "In Review" -> <<73, 110, 32, 82, 101, 118, 105, 101, 119>>
          [] status = "Blocked" -> <<66, 108, 111, 99, 107, 101, 100>>
          [] status = "Done" -> <<68, 111, 110, 101>>]

\* a >= b for two str values: the order of the first position where they
\* differ; a prefix is less than the longer string
RECURSIVE GreaterOrEqual(_, _, _)
GreaterOrEqual(a, b, k) ==
    IF k > Len(b) THEN TRUE
    ELSE IF k > Len(a) THEN FALSE
    ELSE IF a[k] /= b[k] THEN a[k] > b[k]
    ELSE GreaterOrEqual(a, b, k + 1)

status_progression == <<"In Progress", "In Review", "Done">>

\* the loop over status_progression; the ids and the timestamps of the
\* activities are left out
RECURSIVE StatusChanges(_, _, _, _, _)
StatusChanges(ticket, status, k, previous_status, activities) ==
    IF k > Len(status_progression) THEN activities
    ELSE IF GreaterOrEqual(StatusValue[status], StatusValue[status_progression[k]], 1)
    THEN StatusChanges(ticket, status, k + 1, status_progression[k],
             Append(activities, [type |-> "ticket_status_change", ticket_id |-> ticket,
                                 old_status |-> previous_status,
                                 new_status |-> status_progression[k]]))
    ELSE StatusChanges(ticket, status, k + 1, previous_status, activities)

\* The list generate_ticket_activities returns for a ticket with the given id
\* and status.
generate_ticket_activities(ticket, status) ==
    LET create_activity == [type |-> "ticket_create", ticket_id |-> ticket]
    IN  IF status /= "To Do"
        THEN StatusChanges(ticket, status, 1, "To Do", <<create_activity>>)
        ELSE <<create_activity>>

\* generate_ticket_activities on a registered ticket in the status the caller
\* hands it over with; without a team the fallback next(iter(...)) raises.
GenerateTicketActivities(ticket, status) ==
    /\ Small
    /\ IF teams = {}
       THEN raised' = "StopIteration" /\ returned' = <<>>
       ELSE raised' = raised /\ returned' = generate_ticket_activities(ticket, status)
    /\ called' = None
    /\ UNCHANGED <<jira, team_members, teams, current_initiative, dicts, sprints,
                   ticket_counter, sprint_counter, now>>

\* get_sprint_tickets(sprint_id), as the set of the ids of the tickets returned
get_sprint_tickets(sprint_id) ==
    IF sprint_id \notin DOMAIN sprints THEN {}
    ELSE {t \in TicketIds : get_all_tickets[t].sprint_id = sprint_id}

\* ------------------------------------------------------------ push_to_jira
\* The key jira.create_issue gives a new issue: one no issue has yet.
IssueKey(J) == <<"KEY", Cardinality(DOMAIN J.created_tickets) + 1>>

\* One of the two loops that create issue links: a link for every id of the
\* list that is in ticket_mapping already.
RECURSIVE IssueLinks(_, _, _, _, _, _)
IssueLinks(links, type, key, ids, ticket_mapping, k) ==
    IF k > Len(ids) THEN links
    ELSE IF ids[k] \in DOMAIN ticket_mapping
    THEN IssueLinks(Append(links, [type |-> type, inwardIssue |-> key,
                                   outwardIssue |-> ticket_mapping[ids[k]]]),
                    type, key, ids, ticket_mapping, k + 1)
    ELSE IssueLinks(links, type, key, ids, ticket_mapping, k + 1)

\* J: created_tickets (the ticket_mapping argument), issue_links and the value
\* returned; T: the ticket data; accepted: jira.create_issue does not raise.
create_jira_ticket(J, T, ticket, accepted) ==
    LET ticket_data == T[ticket]
        ticket_mapping == J.created_tickets
    IN  IF /\ ticket_data.type = "Sub-task"
           /\ ticket_data.parent_ticket \notin DOMAIN ticket_mapping
        THEN [J EXCEPT !.ret = None]
        ELSE IF ~accepted THEN [J EXCEPT !.ret = None]
        ELSE LET key == IssueKey(J)
                 depends == IssueLinks(J.issue_links, "Depends", key,
                                       ticket_data.depends_on, ticket_mapping, 1)
                 blocks == IssueLinks(depends, "Blocks", key,
                                      ticket_data.blocks, ticket_mapping, 1)
             IN  [J EXCEPT !.issue_links = blocks, !.ret = key]

\* One loop of main over tickets.items(), for the tickets of the given types.
RECURSIVE Pass(_, _, _, _, _, _)
Pass(J, T, order, types, accepted, k) ==
    IF k > Len(order) THEN J
    ELSE IF T[order[k]].type \in types
    THEN LET J1 == create_jira_ticket(J, T, order[k], order[k] \in accepted)
         IN  Pass(IF J1.ret /= None
                  THEN [J1 EXCEPT !.created_tickets = (order[k] :> J1.ret) @@ @]
                  ELSE J1,
                  T, order, types, accepted, k + 1)
    ELSE Pass(J, T, order, types, accepted, k + 1)

\* The four loops of main: T and order are tickets.json, accepted the tickets
\* JIRA accepts.
main(T, order, accepted) ==
    LET J0 == [created_tickets |-> <<>>, issue_links |-> <<>>, ret |-> None]
        J1 == Pass(J0, T, order, {"Epic"}, accepted, 1)
        J2 == Pass(J1, T, order, {"Story", "Task"}, accepted, 1)
        J3 == Pass(J2, T, order, {"Bug"}, accepted, 1)
    IN  Pass(J3, T, order, {"Sub-task"}, accepted, 1)

\* The first push of the generated tickets.
PushToJira(order, accepted) ==
    /\ Small
    /\ created_tickets = <<>> /\ issue_links = <<>>
    /\ LET J == main(get_all_tickets, order, accepted)
       IN  /\ created_tickets' = J.created_tickets
           /\ issue_links' = J.issue_links
    /\ UNCHANGED <<team_members, teams, current_initiative, dicts, sprints,
                   ticket_counter, sprint_counter, now, raised, returned, called>>

\* The depends_on entries of all tickets.
RECURSIVE DependencyCount(_, _)
DependencyCount(T, ids) ==
    IF ids = {} THEN 0
    ELSE LET t == CHOOSE x \in ids : TRUE
         IN  DependencyCount(T, ids \ {t}) + Len(T[t].depends_on)

\* generate_task and _create_dependencies, explored on chains of dependencies.
ChainTask(component, points) ==
    /\ Ready
    /\ ticket_counter <= MaxDependents
    /\ Returns(generate_task(Gen, component, points))

ChainDependencies(ticket, available_tickets, draw, dependencies) ==
    /\ Ready
    /\ DependencyCount(get_all_tickets, TicketIds) < MaxDependencyEdges
    /\ Returns(_create_dependencies(Gen, ticket, available_tickets, draw, dependencies))

GenerateTicketHierarchy(team_order, stories_per_sprint) ==
    /\ Ready
    /\ ticket_counter + Len(ComponentOrder) <= MaxBacklog + 1
    /\ team_order /= <<>> => sprint_counter + stories_per_sprint <= MaxSprints + 1
    /\ LET P == generate_ticket_hierarchy(Gen, team_order, stories_per_sprint)
       IN  /\ Set(P.G)
           /\ returned' = IF P.G.raised = NoneStr THEN P.tickets ELSE <<>>
    /\ called' = None
    /\ UNCHANGED <<jira, team_members, teams, current_initiative, now>>

\* ----------------------------------------------------- the inputs explored
ComponentArgs == {"Backend", "Frontend"}
NoteArgs == {NoneStr, "", "x"}
RelationArgs == DOMAIN reverse_relations
SprintArgs == DOMAIN sprints \cup {ForeignSprint}
ReasonDraws == Ends(1..Len(blocking_reasons))
DayDraws == Ends(MinBlockedDays..MaxBlockedDays)
OnePoint(S) == {Least(S)}
InitiativeArgs == {"AI Enhancement"}

\* set_product_initiative, which the epics need.
Initiative == \E i \in InitiativeArgs : SetProductInitiative(i)

\* The story points drawn from the range S: both ends, or the lower end only.
Drawn(S, both) == IF both THEN Ends(S) ELSE OnePoint(S)

\* The five factories called directly, with the components of C.
Factories(C, both) ==
    \/ \E c \in C, p \in Drawn(EpicPoints, both) : GenerateEpic(c, p)
    \/ \E e \in DOMAIN epics \cup {None}, c \in C, p \in Drawn(StoryPoints, both) :
          GenerateStory(e, c, p)
    \/ \E c \in C, p \in Drawn(TaskPoints, both) : GenerateTask(c, p)
    \/ \E t \in DOMAIN tasks \cup {None}, c \in C, p \in Drawn(SubtaskPoints, both) :
          GenerateSubtask(t, c, p)
    \/ \E c \in C, p \in Drawn(BugPoints, both) : GenerateBug(c, p)

\* Every caller links a ticket to other tickets, never to itself.  The
\* lists of tickets are drawn where the calls are explored (MayLink).
Links ==
    \/ MayLink /\ \E a, b \in TicketIds, r \in RelationArgs, n \in NoteArgs :
          a /= b /\ CreateRelationship(a, b, r, n)
    \/ MayLink /\ \E t \in TicketIds, draw \in BOOLEAN :
       \E available \in Lists(TicketIds \ {t}) :
          \E deps \in (IF draw /\ available /= <<>> THEN DependencySamples(available) ELSE {<<>>}) :
             CreateDependencies(t, available, draw, deps)
    \/ MayLink /\ \E l \in Lists(TicketIds) : HandleClonesAndDuplicates(l)
    \/ MayLink /\ \E ss \in Lists(DOMAIN stories), ts \in Lists(DOMAIN tasks) :
          HandleImplementations(ss, ts)

Sprints == \E team \in TeamArgs, n \in 0..MaxSprints : GenerateSprintsForTeam(team, n)

Assignments == \E t \in TicketIds, s \in SprintArgs : AssignTicketToSprint(t, s)

\* _create_blocking_issue with the reasons R and the ages D drawn.
Blocking(R, D) ==
    \E t \in TicketIds, draw \in BOOLEAN :
       \E r \in (IF draw THEN R ELSE {1}), d \in (IF draw THEN D ELSE {1}) :
          CreateBlockingIssue(t, draw, r, d)

\* generate_sprint_tickets with num_tickets in N.
Backlog(N) ==
    \E s \in SprintArgs, team \in TeamArgs, n \in N : GenerateSprintTickets(s, team, n)

\* generate_ticket_hierarchy with the teams in any order.
Hierarchy ==
    \E order \in Samples(teams, Cardinality(teams)),
       n \in MinStoriesPerSprint..MaxStoriesPerSprint :
          GenerateTicketHierarchy(order, n)

\* The relationship graph: the factories and every edge-creating call.
NextGraph == Initiative \/ Factories(ComponentArgs, FALSE) \/ Links
SpecGraph == Init /\ [][NextGraph]_vars

\* Sprints: the factories, sprint generation and the assignment of tickets
\* that are In Progress or Blocked.
NextSprint ==
    \/ Initiative
    \/ Factories({"Backend"}, TRUE)
    \/ Sprints
    \/ Assignments
    \/ Blocking({1}, {MinBlockedDays})
SpecSprint == Init /\ [][NextSprint]_vars

\* The blocking lifecycle: the factories, _create_blocking_issue and the clock.
NextBlock == Initiative \/ Factories({"Backend"}, FALSE) \/ Blocking(ReasonDraws, DayDraws) \/ Tick
SpecBlock == Init /\ [][NextBlock]_vars

\* Backlog generation: the sprints of a team, then generate_sprint_tickets.
NextBacklog ==
    \/ Initiative
    \/ \E team \in TeamArgs : GenerateSprintsForTeam(team, MaxSprints)
    \/ Backlog(0..MaxNumTickets)
SpecBacklog == Init /\ [][NextBacklog]_vars

\* Sprint planning: the factories, the sprints of one team, assignment and
\* the generation of a full backlog.
NextPlanning ==
    \/ Initiative
    \/ Factories({"Backend"}, FALSE)
    \/ GenerateSprintsForTeam("t1", MaxSprints)
    \/ Assignments
    \/ Backlog({MaxNumTickets})
SpecPlanning == Init /\ [][NextPlanning]_vars

\* The life of a ticket after it was blocked: blocking again, duplicate
\* detection, sprint assignment and the generation of further tickets.
NextLifecycle ==
    \/ Initiative
    \/ \E p \in OnePoint(EpicPoints) : GenerateEpic("Backend", p)
    \/ \E p \in OnePoint(TaskPoints) : GenerateTask("Backend", p)
    \/ Blocking({1}, {MinBlockedDays})
    \/ MayLink /\ \E l \in Lists(TicketIds) : HandleClonesAndDuplicates(l)
    \/ GenerateSprintsForTeam("t1", MaxSprints)
    \/ Assignments
    \/ Backlog({0})
SpecLifecycle == Init /\ [][NextLifecycle]_vars

\* The whole engine on tasks: creation, every edge-creating call, sprints,
\* assignment and the generation of a backlog.
NextEngine ==
    \/ Initiative
    \/ \E p \in OnePoint(TaskPoints) : GenerateTask("Backend", p)
    \/ Links
    \/ GenerateSprintsForTeam("t1", MaxSprints)
    \/ Assignments
    \/ Backlog({MaxNumTickets})
SpecEngine == Init /\ [][NextEngine]_vars

\* Chains of dependencies among tasks: a ticket is never offered as its own
\* candidate.
NextDependencies ==
    \/ \E p \in OnePoint(TaskPoints) : ChainTask("Backend", p)
    \/ \E t \in TicketIds, draw \in BOOLEAN :
       \E available \in Lists(TicketIds \ {t}) :
          \E deps \in (IF draw /\ available /= <<>> THEN DependencySamples(available) ELSE {<<>>}) :
             ChainDependencies(t, available, draw, deps)
SpecDependencies == Init /\ [][NextDependencies]_vars

\* Whole-dataset generation, on a generator that may hold a ticket and
\* sprints already.
NextHierarchy ==
    \/ Initiative
    \/ Factories({"Backend"}, FALSE)
    \/ Sprints
    \/ Hierarchy
SpecHierarchy == Init /\ [][NextHierarchy]_vars

\* Bug reports: generate_bug on every description of up to MaxLines lines.
Descriptions == UNION {[1..n -> DescriptionLines] : n \in 0..MaxLines}

BugReports ==
    \E p \in OnePoint(BugPoints), d \in Descriptions : GenerateBugFrom("Backend", p, d)

NextBug == BugReports
SpecBug == Init /\ [][NextBug]_vars

\* The activities of the tickets: the factories, blocking and
\* generate_ticket_activities on every ticket in every status.
Activities ==
    \E t \in TicketIds, status \in TicketStatus : GenerateTicketActivities(t, status)

NextActivity ==
    \/ Initiative
    \/ Factories({"Backend"}, FALSE)
    \/ Blocking({1}, {MinBlockedDays})
    \/ Activities
SpecActivity == Init /\ [][NextActivity]_vars

\* Sprint membership: the factories, the sprints of one team and the
\* assignment of tickets to registered sprints, repeated and changed.
RegisteredAssignments ==
    \E t \in TicketIds, s \in DOMAIN sprints : AssignTicketToSprint(t, s)

NextMembership ==
    \/ Initiative
    \/ Factories({"Backend"}, FALSE)
    \/ GenerateSprintsForTeam("t1", MaxSprints)
    \/ RegisteredAssignments
SpecMembership == Init /\ [][NextMembership]_vars

\* The push of the tickets to JIRA: the factories, _create_dependencies and
\* main of push_to_jira with the tickets in any order, accepted or not.
Dependencies ==
    MayLink /\ \E t \in TicketIds, draw \in BOOLEAN :
       \E available \in Lists(TicketIds \ {t}) :
          \E deps \in (IF draw /\ available /= <<>> THEN DependencySamples(available) ELSE {<<>>}) :
             CreateDependencies(t, available, draw, deps)

Push ==
    \E order \in Samples(TicketIds, Cardinality(TicketIds)), accepted \in SUBSET TicketIds :
       PushToJira(order, accepted)

NextPush ==
    \/ Initiative
    \/ Factories({"Backend"}, FALSE)
    \/ Dependencies
    \/ Push
SpecPush == Init /\ [][NextPush]_vars

\* Every call, with every input explored above.
Next ==
    \/ NextGraph \/ NextSprint \/ NextBlock
    \/ NextBacklog \/ NextPlanning \/ NextLifecycle
    \/ NextEngine \/ NextHierarchy \/ NextDependencies
    \/ NextBug \/ NextActivity \/ NextMembership \/ NextPush
Spec == Init /\ [][Next]_vars

\* ------------------------------------------------------------------ claims
\* The ticket objects after the step.
get_all_tickets_after == epics' @@ stories' @@ tasks' @@ subtasks' @@ bugs'

\* The inverse list of each forward list.
InverseList ==
    [ blocks |-> "blocked_by", depends_on |-> "required_for", clones |-> "cloned_by",
      duplicates |-> "duplicated_by", implements |-> "implemented_by" ]

\* C1: edge symmetry.  In every reachable state, for every forward list T with
\* inverse T' and all tickets A and B: if B is in A's T-list then A is in B's
\* T'-list.
EdgeSymmetry ==
    \A A, B \in TicketIds : \A T \in DOMAIN InverseList :
        B \in Range(get_all_tickets[A][T]) =>
            A \in Range(get_all_tickets[B][InverseList[T]])

\* C1: the state _create_dependencies(A, [B]) leaves: A depends on B, and B
\* lists A under blocks instead of required_for.
DependencyWithoutInverse ==
    \E A, B \in TicketIds :
        /\ A /= B
        /\ B \in Range(get_all_tickets[A].depends_on)
        /\ A \notin Range(get_all_tickets[B].required_for)
        /\ A \in Range(get_all_tickets[B].blocks)
        /\ B \notin Range(get_all_tickets[A].blocked_by)

\* C2: for each of the five forward types T and any tickets A and B,
\* _create_relationship(A, B, T, note) appends B at the end of A's T-list and A
\* at the end of B's inverse list; a note that is supplied (not None, not empty)
\* becomes A.relationship_notes[T][B], and without one the notes stay as they are.
RelationshipAppends ==
    [][ \A A, B \in TicketIds, T \in RelationArgs, note \in NoteArgs :
          CreateRelationship(A, B, T, note) =>
            LET before == get_all_tickets
                after == get_all_tickets_after
                forward == AttrOf[T]
            IN  /\ after[A][forward] = Append(before[A][forward], B)
                /\ after[B][InverseList[forward]] = Append(before[B][InverseList[forward]], A)
                /\ IF Truthy(note)
                   THEN /\ <<forward, B>> \in DOMAIN after[A].relationship_notes
                        /\ after[A].relationship_notes[<<forward, B>>] = note
                   ELSE after[A].relationship_notes = before[A].relationship_notes
      ]_vars

\* C2: link(A, B, blocks, note = "x") has run on tickets with empty lists, and
\* a link of another type, without a note, has run on the same two tickets.
LinkedWithNote ==
    \E A, B \in TicketIds :
        /\ A /= B
        /\ get_all_tickets[A].blocks = <<B>>
        /\ get_all_tickets[B].blocked_by = <<A>>
        /\ get_all_tickets[A].relationship_notes = (<<"blocks", B>> :> "x")
        /\ get_all_tickets[A].duplicates = <<B>>
        /\ get_all_tickets[B].duplicated_by = <<A>>

\* C3: rollup bound.  After any sequence of assignments every sprint the
\* generator holds has story_points_completed <= story_points_committed.
RollupBound ==
    \A s \in DOMAIN sprints :
        sprints[s].story_points_completed <= sprints[s].story_points_committed

\* C3: a sprint to which two tickets of different story points were assigned,
\* one of them Blocked.
TwoEstimatesAssigned ==
    \E s \in DOMAIN sprints :
        /\ Len(sprints[s].tickets) = 2
        /\ get_all_tickets[sprints[s].tickets[1]].status = "Blocked"
        /\ get_all_tickets[sprints[s].tickets[2]].status = "In Progress"
        /\ get_all_tickets[sprints[s].tickets[1]].story_points /=
                get_all_tickets[sprints[s].tickets[2]].story_points

\* C4: assigning a non-epic ticket with estimate p to a sprint adds p to the
\* sprint's story_points_committed, and to story_points_completed exactly when
\* the ticket is Done.
AssignmentRollsUp ==
    [][ \A t \in TicketIds, s \in DOMAIN sprints :
          (AssignTicketToSprint(t, s) /\ ~IsEpic(get_all_tickets[t])) =>
            LET p == get_all_tickets[t].story_points
            IN  /\ sprints'[s].story_points_committed =
                        sprints[s].story_points_committed + p
                /\ sprints'[s].story_points_completed =
                        sprints[s].story_points_completed +
                            (IF get_all_tickets[t].status = "Done" THEN p ELSE 0)
      ]_vars

\* C4: a ticket with an estimate is in a sprint's list and the sprint has
\* nothing committed.
AssignedNothingCommitted ==
    \E s \in DOMAIN sprints : \E t \in Range(sprints[s].tickets) :
        /\ get_all_tickets[t].sprint_id = s
        /\ get_all_tickets[t].story_points > 0
        /\ sprints[s].story_points_committed = 0

\* The Sprint object with id s: the one the generator holds, or one a caller
\* built itself (scripts/generate_all.py builds one), which no method writes.
SprintTickets(S, s) == IF s \in DOMAIN S THEN S[s].tickets ELSE <<>>

\* The Story, Task, Sub-task and Bug ids generate_sprint_tickets returned carry
\* the sprint's id and are in the sprint's list.
ReturnedInSprint ==
    (called /= None /\ raised = NoneStr) =>
        \A t \in Range(returned) :
            ~IsEpic(get_all_tickets[t]) =>
                /\ get_all_tickets[t].sprint_id = called
                /\ t \in Range(sprints[called].tickets)

\* C5 as stated: for every non-epic ticket t and every sprint s, whether the
\* generator holds s or not, assign_ticket_to_sprint(t, s) sets t.sprint_id to
\* s.id and appends t.id to s's ticket list; and what generate_sprint_tickets
\* returns is assigned to its sprint.
AssignsToEverySprint ==
    /\ []ReturnedInSprint
    /\ [][ \A t \in TicketIds, s \in SprintArgs :
             (AssignTicketToSprint(t, s) /\ ~IsEpic(get_all_tickets[t])) =>
                /\ get_all_tickets_after[t].sprint_id = s
                /\ SprintTickets(sprints', s) = Append(SprintTickets(sprints, s), t)
         ]_vars

\* C5 for the sprints registered in the generator: for every non-epic ticket t
\* and every sprint s the generator holds, assign_ticket_to_sprint(t, s) sets
\* t.sprint_id to s.id and appends t.id to s's ticket list; and every Story,
\* Task, Sub-task and Bug generate_sprint_tickets(sprint_id, ...) returns has
\* that sprint's id and is in that sprint's list.  For a sprint the generator
\* does not hold only t.sprint_id is set.
AssignsToRegisteredSprint ==
    /\ []ReturnedInSprint
    /\ [][ \A t \in TicketIds, s \in SprintArgs :
             (AssignTicketToSprint(t, s) /\ ~IsEpic(get_all_tickets[t])) =>
                /\ get_all_tickets_after[t].sprint_id = s
                /\ s \in DOMAIN sprints =>
                      sprints'[s].tickets = Append(sprints[s].tickets, t)
                /\ s \notin DOMAIN sprints => sprints' = sprints
         ]_vars

\* C5: generate_sprint_tickets has returned a Story, a Task, a Sub-task and a
\* Bug, all in the list of its sprint.
BacklogAssigned ==
    /\ called /= None /\ raised = NoneStr
    /\ \A type \in TicketType \ {"Epic"} :
          \E t \in Range(returned) :
              /\ get_all_tickets[t].type = type
              /\ t \in Range(sprints[called].tickets)

\* C6: epics are never assigned to a sprint.  assign_ticket_to_sprint called
\* with an Epic changes neither the epic's sprint_id nor any sprint's list, and
\* in every reachable state no Epic has a sprint_id and no sprint lists an Epic.
EpicsNeverAssigned ==
    /\ [](\A e \in DOMAIN epics :
            /\ epics[e].sprint_id = None
            /\ \A s \in DOMAIN sprints : e \notin Range(sprints[s].tickets))
    /\ [][ \A e \in DOMAIN epics, s \in SprintArgs :
             AssignTicketToSprint(e, s) =>
                /\ epics'[e].sprint_id = epics[e].sprint_id
                /\ sprints' = sprints
         ]_vars

\* C6: generate_sprint_tickets, which hands its epics to
\* assign_ticket_to_sprint, has returned an Epic next to the tickets it put in
\* the sprint.
EpicReturnedUnassigned ==
    /\ called /= None /\ raised = NoneStr
    /\ sprints[called].tickets /= <<>>
    /\ \E e \in Range(returned) :
          /\ IsEpic(get_all_tickets[e])
          /\ get_all_tickets[e].sprint_id = None

\* C7: subtask parentage.  Every Subtask registered in the generator has a
\* non-null parent_ticket that is the id of a registered Task.
SubtaskParentage ==
    \A st \in DOMAIN subtasks :
        /\ subtasks[st].parent_ticket /= None
        /\ subtasks[st].parent_ticket \in DOMAIN tasks

\* C7: generate_sprint_tickets has returned a Sub-task whose parent it picked
\* among the registered tasks.
SubtaskReturned ==
    /\ called /= None /\ raised = NoneStr
    /\ \E st \in Range(returned) :
          /\ st \in DOMAIN subtasks
          /\ subtasks[st].parent_ticket \in Range(returned)

\* C8: blocking atomicity.  In every reachable state and for every ticket,
\* blocking_reason is non-null if and only if blocked_since is non-null.
BlockingAtomicity ==
    \A t \in TicketIds :
        get_all_tickets[t].blocking_reason /= NoneStr <=>
            get_all_tickets[t].blocked_since /= None

\* C8: one ticket carries a reason and a date, another carries neither.
BlockedBesideUnblocked ==
    \E t, u \in TicketIds :
        /\ get_all_tickets[t].blocking_reason /= NoneStr
        /\ get_all_tickets[t].blocked_since /= None
        /\ get_all_tickets[u].blocking_reason = NoneStr
        /\ get_all_tickets[u].blocked_since = None

\* C9: _create_blocking_issue(ticket) has two outcomes.  When the draw succeeds
\* the ticket is Blocked, its blocking_reason is one of the pool and its
\* blocked_since is strictly earlier than now; when it fails the ticket is
\* unchanged.  Either way nothing changes but that ticket's status,
\* blocking_reason and blocked_since: no other ticket, no edge list, no sprint.
BlockingOutcomes ==
    [][ \A t \in TicketIds, draw \in BOOLEAN, reason \in ReasonDraws, days \in DayDraws :
          CreateBlockingIssue(t, draw, reason, days) =>
            LET before == get_all_tickets
                after == get_all_tickets_after
            IN  /\ draw =>
                      /\ after[t].status = "Blocked"
                      /\ after[t].blocking_reason \in Range(blocking_reasons)
                      /\ after[t].blocked_since /= None
                      /\ after[t].blocked_since[2] < now
                /\ ~draw => after[t] = before[t]
                /\ [after[t] EXCEPT !.status = before[t].status,
                                    !.blocking_reason = before[t].blocking_reason,
                                    !.blocked_since = before[t].blocked_since] = before[t]
                /\ \A u \in TicketIds \ {t} : after[u] = before[u]
                /\ DOMAIN after = DOMAIN before
                /\ UNCHANGED <<sprints, ticket_counter, sprint_counter>>
      ]_vars

\* C9: the draw has succeeded on one ticket, days before the current day, and
\* another ticket has stayed In Progress.
BlockedInThePast ==
    \E t, u \in TicketIds :
        /\ get_all_tickets[t].status = "Blocked"
        /\ get_all_tickets[t].blocking_reason = blocking_reasons[Len(blocking_reasons)]
        /\ get_all_tickets[t].blocked_since = <<"day", now - MaxBlockedDays>>
        /\ now > 0
        /\ get_all_tickets[u].status = "In Progress"

\* C10: once a ticket is Blocked it stays Blocked.  No call changes its status
\* away from Blocked or clears its blocking_reason or its blocked_since.
StaysBlocked ==
    [][ \A t \in TicketIds :
          get_all_tickets[t].status = "Blocked" =>
            /\ t \in DOMAIN get_all_tickets_after
            /\ get_all_tickets_after[t].status = "Blocked"
            /\ get_all_tickets_after[t].blocking_reason /= NoneStr
            /\ get_all_tickets_after[t].blocked_since /= None
      ]_vars

\* C10: a Blocked ticket that was assigned to a sprint and linked to its
\* duplicate is still Blocked when generate_sprint_tickets has returned.
BlockedAfterBacklog ==
    /\ called /= None /\ raised = NoneStr
    /\ \E t \in TicketIds :
          /\ get_all_tickets[t].status = "Blocked"
          /\ get_all_tickets[t].sprint_id /= None
          /\ get_all_tickets[t].duplicated_by /= <<>>

\* The relationship lists of a ticket (models/ticket.py).
RelationshipLists ==
    {"blocks", "blocked_by", "depends_on", "required_for", "clones", "cloned_by",
     "duplicates", "duplicated_by", "implements", "implemented_by"}

\* s is a prefix of t
IsPrefix(s, t) == Len(s) <= Len(t) /\ SubSeq(t, 1, Len(s)) = s

\* C11: the engine only appends.  Across every step each of the five ticket
\* collections and the sprint collection keeps the ids it had, each sprint's
\* ticket list before the step is a prefix of the list after it, and so is every
\* relationship list of every ticket: no ticket, sprint or edge is removed.
OnlyAppends ==
    [][ /\ DOMAIN epics \subseteq DOMAIN epics'
        /\ DOMAIN stories \subseteq DOMAIN stories'
        /\ DOMAIN tasks \subseteq DOMAIN tasks'
        /\ DOMAIN subtasks \subseteq DOMAIN subtasks'
        /\ DOMAIN bugs \subseteq DOMAIN bugs'
        /\ DOMAIN sprints \subseteq DOMAIN sprints'
        /\ \A s \in DOMAIN sprints : IsPrefix(sprints[s].tickets, sprints'[s].tickets)
        /\ \A t \in TicketIds : \A L \in RelationshipLists :
              IsPrefix(get_all_tickets[t][L], get_all_tickets_after[t][L])
      ]_vars

\* C11: a ticket was appended to a sprint list that held one already, and a
\* ticket that had an edge of one type got an edge of another type.
AppendedTwice ==
    /\ \E s \in DOMAIN sprints : Len(sprints[s].tickets) = 2
    /\ \E t \in TicketIds :
          /\ get_all_tickets[t].depends_on /= <<>>
          /\ get_all_tickets[t].duplicates /= <<>>

\* The parents of a ticket: its epic_link and its parent_ticket, where set.
Parents(T, t) == {T[t].epic_link, T[t].parent_ticket} \ {None}

\* The tickets reached from t by 1 to n steps of the parent relation.
RECURSIVE Ancestors(_, _, _)
Ancestors(T, t, n) ==
    IF n = 0 THEN {}
    ELSE Parents(T, t) \cup
         UNION {Ancestors(T, p, n - 1) : p \in Parents(T, t) \cap DOMAIN T}

\* C12: hierarchy acyclicity.  In every reachable state every Epic has
\* epic_link and parent_ticket both null, and no ticket is its own ancestor
\* under the parent relation of Story.epic_link and Subtask.parent_ticket.
HierarchyAcyclic ==
    /\ \A e \in DOMAIN epics :
          epics[e].epic_link = None /\ epics[e].parent_ticket = None
    /\ \A t \in TicketIds :
          t \notin Ancestors(get_all_tickets, t, Cardinality(TicketIds))

\* C12: generate_sprint_tickets has put a Story under an Epic and a Sub-task
\* under a Task.
StoryUnderEpic ==
    /\ called /= None /\ raised = NoneStr
    /\ \E st \in DOMAIN stories : stories[st].epic_link \in DOMAIN epics
    /\ \E su \in DOMAIN subtasks : subtasks[su].parent_ticket \in DOMAIN tasks

\* The tickets of one type in the list generate_sprint_tickets returned.
ReturnedOfType(type) == {t \in Range(returned) : get_all_tickets[t].type = type}

\* C13: building the backlog of one sprint creates exactly one Epic, 2 to 4
\* Tasks for each Story it creates and 1 to 3 Subtasks for each Task it creates,
\* and every Subtask's parent is a Task created in the same build.
BacklogShape ==
    (called /= None /\ raised = NoneStr) =>
        LET built_stories == Cardinality(ReturnedOfType("Story"))
            built_tasks == Cardinality(ReturnedOfType("Task"))
            built_subtasks == Cardinality(ReturnedOfType("Sub-task"))
        IN  /\ Cardinality(ReturnedOfType("Epic")) = 1
            /\ 2 * built_stories <= built_tasks /\ built_tasks <= 4 * built_stories
            /\ built_tasks <= built_subtasks /\ built_subtasks <= 3 * built_tasks
            /\ \A su \in ReturnedOfType("Sub-task") :
                  get_all_tickets[su].parent_ticket \in ReturnedOfType("Task")

\* C13: generate_sprint_tickets has returned two Epics and fewer Tasks than
\* Stories.
TwoEpicsBuilt ==
    /\ called /= None /\ raised = NoneStr
    /\ Cardinality(ReturnedOfType("Epic")) = MaxEpicsPerSprint
    /\ Cardinality(ReturnedOfType("Story")) = num_stories(MaxNumTickets)
    /\ Cardinality(ReturnedOfType("Task")) < Cardinality(ReturnedOfType("Story"))

\* The ticket a factory call returned is registered, under an id no ticket had
\* before the call, in the collection `after` of its variant.
Registers(G, after, type) ==
    (raised' = NoneStr) =>
        /\ G.ret \notin TicketIds
        /\ G.ret \in DOMAIN after
        /\ after[G.ret].type = type
        /\ Cardinality(DOMAIN get_all_tickets_after) = Cardinality(TicketIds) + 1

\* C14: every ticket a factory method returns is registered in the collection
\* of its own variant under a fresh identifier and stays retrievable: every
\* later step keeps it, under the same id, in the same collection, so no two
\* created tickets share an id and no registration overwrites another.
FreshAndRetrievable ==
    /\ [](/\ \A t \in DOMAIN epics : epics[t].type = "Epic"
          /\ \A t \in DOMAIN stories : stories[t].type = "Story"
          /\ \A t \in DOMAIN tasks : tasks[t].type = "Task"
          /\ \A t \in DOMAIN subtasks : subtasks[t].type = "Sub-task"
          /\ \A t \in DOMAIN bugs : bugs[t].type = "Bug"
          /\ Cardinality(TicketIds) =
                Cardinality(DOMAIN epics) + Cardinality(DOMAIN stories) +
                Cardinality(DOMAIN tasks) + Cardinality(DOMAIN subtasks) +
                Cardinality(DOMAIN bugs))
    /\ [][ /\ \A t \in TicketIds :
                /\ t \in DOMAIN get_all_tickets_after
                /\ get_all_tickets_after[t].type = get_all_tickets[t].type
            /\ \A c \in ComponentArgs :
                /\ \A p \in EpicPoints :
                      GenerateEpic(c, p) => Registers(generate_epic(Gen, c, p), epics', "Epic")
                /\ \A e \in DOMAIN epics, p \in StoryPoints :
                      GenerateStory(e, c, p) =>
                          Registers(generate_story(Gen, e, c, p), stories', "Story")
                /\ \A p \in TaskPoints :
                      GenerateTask(c, p) => Registers(generate_task(Gen, c, p), tasks', "Task")
                /\ \A task \in DOMAIN tasks, p \in SubtaskPoints :
                      GenerateSubtask(task, c, p) =>
                          Registers(generate_subtask(Gen, task, c, p), subtasks', "Sub-task")
                /\ \A p \in BugPoints :
                      GenerateBug(c, p) => Registers(generate_bug(Gen, c, p, BugReport), bugs', "Bug")
         ]_vars

\* C14: two tickets of one variant were created one after the other and are
\* both registered, the older one after it was blocked and assigned to a sprint.
TwoOfOneVariant ==
    /\ raised = NoneStr
    /\ \E n \in 1..MaxTickets :
          /\ <<"TASK", n>> \in DOMAIN tasks
          /\ <<"TASK", n + 1>> \in DOMAIN tasks
          /\ tasks[<<"TASK", n>>].status = "Blocked"
          /\ tasks[<<"TASK", n>>].sprint_id \in DOMAIN sprints
          /\ tasks[<<"TASK", n>>].story_points /= tasks[<<"TASK", n + 1>>].story_points

\* C15: lookup failures do not fail the run.  generate_sprints_for_team and
\* generate_sprint_tickets called with a team id that is not in the team table,
\* and generate_sprint_tickets called when no team member can be found, fall
\* back and complete instead of raising.
LookupFallback ==
    [][ /\ \A team \in TeamArgs \ teams :
              GenerateSprintsForTeam(team, MaxSprints) => raised' = NoneStr
        /\ \A s \in DOMAIN sprints, team \in TeamArgs \ teams, n \in 0..MaxNumTickets :
              GenerateSprintTickets(s, team, n) => raised' = NoneStr
        /\ (NoTeamMember /\ called' \in DOMAIN sprints) => raised' = NoneStr
      ]_vars

\* C15: a generator that has team members has raised ValueError on a call
\* that named an unknown team, before it created anything.
UnknownTeamRaised ==
    /\ raised = "ValueError"
    /\ team_members /= {}
    /\ ticket_counter = InitialTicketCounter

\* C16: whenever generate_sprint_tickets rejects an unregistered sprint id or
\* team id, or generate_sprints_for_team rejects an unregistered team id, it
\* raises ValueError before any mutation: the ticket collections, the sprint
\* collection with every sprint's ticket list, ticket_counter and
\* sprint_counter are the same as before the call.
RejectsBeforeMutation ==
    [][ /\ \A team \in TeamArgs \ teams :
              GenerateSprintsForTeam(team, MaxSprints) =>
                  /\ raised' = "ValueError"
                  /\ UNCHANGED <<dicts, sprints, ticket_counter, sprint_counter>>
        /\ \A s \in SprintArgs, team \in TeamArgs, n \in 0..MaxNumTickets :
              ((s \notin DOMAIN sprints \/ team \notin teams)
                  /\ GenerateSprintTickets(s, team, n)) =>
                  /\ raised' = "ValueError"
                  /\ UNCHANGED <<dicts, sprints, ticket_counter, sprint_counter>>
      ]_vars

\* C16: generate_sprint_tickets has rejected a sprint the generator does not
\* hold, on a generator that holds tickets in a sprint's list.
SprintRejected ==
    /\ raised = "ValueError"
    /\ called = ForeignSprint
    /\ team_members /= {}
    /\ \E s \in DOMAIN sprints : sprints[s].tickets /= <<>>

\* No ticket of the list passes the clone or the duplicate candidate filter.
NoCandidates(T, tickets) ==
    \A i \in 1..Len(tickets) :
        /\ clone_candidates(T, tickets, tickets[i]) = {}
        /\ duplicate_candidates(T, tickets, tickets[i]) = {}

\* No story of the list has an eligible task.
NoImplementers(T, stories_, tasks_) ==
    \A i \in 1..Len(stories_) : implement_candidates(T, tasks_, stories_[i]) = {}

\* C17: empty candidate pools are a no-op skip.  _create_dependencies with an
\* empty list of available tickets, _handle_clones_and_duplicates on a list in
\* which no ticket passes a candidate filter (the empty and the one-element
\* list included) and _handle_implementations with no eligible task return
\* without raising and leave every ticket as it was, whatever the draws are.
EmptyPoolsSkip ==
    /\ [](Small =>
            /\ \A t \in TicketIds, draw \in BOOLEAN :
                  _create_dependencies(Gen, t, <<>>, draw, <<>>) = Gen
            /\ \A l \in Lists(TicketIds) :
                  NoCandidates(get_all_tickets, l) =>
                      /\ _handle_clones_and_duplicates(Gen, l) = {Gen}
                      /\ \A i \in 1..Len(l), clone_draw, duplicate_draw \in BOOLEAN :
                            ClonesAndDuplicates(Gen, l, l[i], clone_draw, None,
                                                duplicate_draw, None) = Gen
            /\ \A ss \in Lists(DOMAIN stories), ts \in Lists(DOMAIN tasks) :
                  NoImplementers(get_all_tickets, ss, ts) =>
                      /\ _handle_implementations(Gen, ss, ts) = {Gen}
                      /\ \A i \in 1..Len(ss), draw \in BOOLEAN :
                            Implementations(Gen, ts, ss[i], draw, <<>>) = Gen)
    /\ [][ MayLink =>
             /\ \A t \in TicketIds, draw \in BOOLEAN :
                   CreateDependencies(t, <<>>, draw, <<>>) =>
                       raised' = NoneStr /\ UNCHANGED dicts
             /\ \A l \in Lists(TicketIds) :
                   (NoCandidates(get_all_tickets, l) /\ HandleClonesAndDuplicates(l)) =>
                       raised' = NoneStr /\ UNCHANGED dicts
             /\ \A ss \in Lists(DOMAIN stories), ts \in Lists(DOMAIN tasks) :
                   (NoImplementers(get_all_tickets, ss, ts) /\ HandleImplementations(ss, ts)) =>
                       raised' = NoneStr /\ UNCHANGED dicts
         ]_vars

\* C17: two tickets of different types on the same component, neither a
\* clone nor a duplicate candidate of the other, and a task no story names:
\* the three calls have found nothing to link and no edge exists.
NothingToLink ==
    /\ raised = NoneStr
    /\ EdgeCount = 0
    /\ DOMAIN stories = {}
    /\ \E a \in DOMAIN tasks, b \in DOMAIN bugs :
          NoCandidates(get_all_tickets, <<a, b>>)

\* C18: generation always completes.  On every generator with a non-empty
\* actor pool, with any number of teams, generate_ticket_hierarchy returns
\* normally, with one Epic per component in its result.
HierarchyCompletes ==
    [][ \A order \in Samples(teams, Cardinality(teams)),
           n \in MinStoriesPerSprint..MaxStoriesPerSprint :
          (team_members /= {} /\ GenerateTicketHierarchy(order, n)) =>
              /\ raised' = NoneStr
              /\ Len(returned') = Cardinality(Component)
              /\ \A c \in Component :
                    \E i \in 1..Len(returned') :
                        /\ returned'[i] \in DOMAIN epics'
                        /\ epics'[returned'[i]].components = <<c>>
      ]_vars

\* C18: generate_ticket_hierarchy has ended with UnboundLocalError on a
\* generator with a team member, a team and an initiative, after it created
\* the first Epic and the sprints of the first team.
HierarchyAborted ==
    /\ raised = "UnboundLocalError"
    /\ team_members /= {} /\ teams /= {} /\ current_initiative /= NoneStr
    /\ \E e \in DOMAIN epics : epics[e].components = <<ComponentOrder[1]>>
    /\ Cardinality(DOMAIN sprints) = MinStoriesPerSprint
    /\ DOMAIN stories = {}

\* C19: one-hop cycle guard.  After any sequence of _create_dependencies calls
\* in which a ticket is never offered as its own candidate there are no two
\* distinct tickets A and B with B in A.depends_on and A in B.depends_on.
NoMutualDependency ==
    \A A, B \in TicketIds :
        A /= B =>
            ~(/\ B \in Range(get_all_tickets[A].depends_on)
              /\ A \in Range(get_all_tickets[B].depends_on))

\* C19: A depends on B and on C, and B depends on C: whatever was offered to B
\* or C since, neither depends on A.
DependsOneWay ==
    \E A, B, C \in TicketIds :
        /\ A /= B /\ B /= C /\ A /= C
        /\ get_all_tickets[A].depends_on = <<B, C>>
        /\ get_all_tickets[B].depends_on = <<C>>
        /\ get_all_tickets[C].depends_on = <<>>

NewDependencies ==
    {e \in (DOMAIN get_all_tickets_after) \X (DOMAIN get_all_tickets_after) :
        /\ e[2] \in Range(get_all_tickets_after[e[1]].depends_on)
        /\ e[1] \in TicketIds => e[2] \notin Range(get_all_tickets[e[1]].depends_on)}

\* b is a Story of the Epic a, or a Task of the Story a.
Sibling(T, a, b) ==
    \/ T[a].type = "Epic" /\ T[b].type = "Story" /\ T[b].epic_link = a
    \/ T[a].type = "Story" /\ T[b].type = "Task" /\ T[b].parent_ticket = a

\* C21: every depends_on edge created by generate_sprint_tickets connects an
\* Epic with one of its own Stories or a Story with one of its own Tasks, never
\* an Epic with another Epic, a Task, a Subtask or a Bug.
DependenciesAmongSiblings ==
    [][called' /= None =>
         \A e \in NewDependencies :
            \/ Sibling(get_all_tickets_after, e[1], e[2])
            \/ Sibling(get_all_tickets_after, e[2], e[1])]_vars

\* C21: generate_sprint_tickets has returned an Epic that depends on a Bug it
\* returned.
EpicDependsOnBug ==
    /\ called /= None /\ raised = NoneStr
    /\ \E a, b \in Range(returned) :
          /\ get_all_tickets[a].type = "Epic"
          /\ get_all_tickets[b].type = "Bug"
          /\ b \in Range(get_all_tickets[a].depends_on)

\* The entries the step appends to the list `attr` of ticket a.
Appended(a, attr) ==
    LET before == get_all_tickets[a][attr]
        after == get_all_tickets_after[a][attr]
    IN  {after[k] : k \in (Len(before) + 1)..Len(after)}

\* The step adds no edge but clones and duplicates edges among the tickets of
\* the list, each from a source to a target that passes the filter of its type,
\* with a note on the source.
FilteredEdgesOnly(tickets) ==
    LET T == get_all_tickets
        after == get_all_tickets_after
    IN  \A a \in TicketIds :
           /\ \A attr \in {"blocks", "depends_on", "implements"} :
                 after[a][attr] = T[a][attr]
           /\ \A b \in Appended(a, "clones") :
                 /\ a \in Range(tickets) /\ b \in Range(tickets) /\ a /= b
                 /\ Len(T[a].components) = 1
                 /\ Range(T[b].components) \ Range(T[a].components) /= {}
                 /\ <<"clones", b>> \in DOMAIN after[a].relationship_notes
                 /\ Truthy(after[a].relationship_notes[<<"clones", b>>])
           /\ \A b \in Appended(a, "duplicates") :
                 /\ a \in Range(tickets) /\ b \in Range(tickets) /\ a /= b
                 /\ T[b].type = T[a].type
                 /\ Range(T[b].components) = Range(T[a].components)
                 /\ <<"duplicates", b>> \in DOMAIN after[a].relationship_notes
                 /\ Truthy(after[a].relationship_notes[<<"duplicates", b>>])

\* C22: every edge added by _handle_clones_and_duplicates(tickets) joins two
\* distinct tickets of the list: a clones edge goes from a ticket with exactly
\* one component to a ticket that has a component the source lacks, a duplicates
\* edge goes to a ticket of the same type with the same component set, and each
\* edge carries a note on its source.
ClonesAndDuplicatesFiltered ==
    [][\A tickets \in Lists(TicketIds) :
          HandleClonesAndDuplicates(tickets) => FilteredEdgesOnly(tickets)]_vars

\* C22: _handle_clones_and_duplicates has linked a ticket to its clone in
\* another component, with the note that names that component.
ClonedAcrossComponents ==
    \E a, b \in TicketIds :
        /\ a /= b
        /\ get_all_tickets[a].clones = <<b>>
        /\ get_all_tickets[b].cloned_by = <<a>>
        /\ get_all_tickets[a].components /= get_all_tickets[b].components
        /\ <<"clones", b>> \in DOMAIN get_all_tickets[a].relationship_notes
        /\ get_all_tickets[a].relationship_notes[<<"clones", b>>] =
              CloneNote(get_all_tickets[b].components[1])

\* C23: creation precedes linkage.  In every state reached through
\* generate_sprints_for_team and generate_sprint_tickets, every id in a ticket's
\* relationship lists, in a Story's epic_link, in a Subtask's parent_ticket or in
\* a sprint's ticket list is the id of a registered ticket, and every sprint_id
\* that is not None is the id of a registered sprint.
CreationPrecedesLinkage ==
    /\ \A t \in TicketIds :
          LET ticket == get_all_tickets[t]
          IN  /\ \A attr \in RelationshipLists : Range(ticket[attr]) \subseteq TicketIds
              /\ (ticket.type = "Story" /\ ticket.epic_link /= None) =>
                    ticket.epic_link \in TicketIds
              /\ ticket.type = "Sub-task" => ticket.parent_ticket \in TicketIds
              /\ ticket.sprint_id /= None => ticket.sprint_id \in DOMAIN sprints
    /\ \A s \in DOMAIN sprints : Range(sprints[s].tickets) \subseteq TicketIds

\* C23: generate_sprint_tickets has returned a backlog that holds a Story under
\* an Epic, a Subtask under a Task and a dependency, both in the sprint's list.
BacklogLinked ==
    /\ called /= None /\ raised = NoneStr
    /\ \E st, su, a \in Range(returned) :
          /\ get_all_tickets[st].type = "Story"
          /\ get_all_tickets[st].epic_link \in DOMAIN epics
          /\ get_all_tickets[su].type = "Sub-task"
          /\ get_all_tickets[su].parent_ticket \in DOMAIN tasks
          /\ get_all_tickets[a].depends_on /= <<>>
          /\ get_all_tickets[st].sprint_id = called
          /\ {st, su} \subseteq Range(sprints[called].tickets)

\* A line with nothing but blanks.
IsBlank(line) == line \in {"", "   "}

IsHeader(line) ==
    line \in {"Steps to Reproduce:", "**Current Behavior:**", "Actual Behavior:",
              "Expected Behavior:"}

\* No non-blank line follows the header at position i before the next header.
NothingFollows(description, i) ==
    \A j \in (i + 1)..Len(description) :
       (\A k \in (i + 1)..j : ~IsHeader(description[k])) => IsBlank(description[j])

StepsHeaders(description) ==
    {i \in 1..Len(description) : description[i] = "Steps to Reproduce:"}

\* A text that holds a character.
NonEmptyText(text) == \E k \in 1..Len(text) : text[k] /= ""

\* The three extracted fields of the bug are non-empty and the call did not
\* raise for want of anything but an actor.
BugFieldsFilled(bug) ==
    /\ bug.steps_to_reproduce /= <<>>
    /\ \A k \in 1..Len(bug.steps_to_reproduce) : bug.steps_to_reproduce[k] /= ""
    /\ NonEmptyText(bug.actual_behavior)
    /\ NonEmptyText(bug.expected_behavior)

\* C24: for every description generate_bug produces a Bug whose
\* steps_to_reproduce, actual_behavior and expected_behavior are non-empty and
\* never raises over the text; when no non-blank line follows a 'Steps to
\* Reproduce:' header before the next header, steps_to_reproduce is the fixed
\* 3-step sequence.
StepsDefaultAfterAnEmptyHeader ==
    /\ team_members /= {} => raised = NoneStr
    /\ \A b \in DOMAIN bugs :
          /\ BugFieldsFilled(bugs[b])
          /\ (\E i \in StepsHeaders(bugs[b].description) :
                 NothingFollows(bugs[b].description, i)) =>
                bugs[b].steps_to_reproduce = default_steps_to_reproduce

\* C24, amended: the three fields are non-empty and the extraction never
\* raises; steps_to_reproduce is the fixed 3-step sequence when no 'Steps to
\* Reproduce:' header of the text is followed by a non-blank line before the
\* next header (in particular when the text has no such header), and otherwise
\* it holds a non-blank line of the text, stripped.
StepsDefaultAfterEmptyHeadersOnly ==
    /\ team_members /= {} => raised = NoneStr
    /\ \A b \in DOMAIN bugs :
          /\ BugFieldsFilled(bugs[b])
          /\ IF \A i \in StepsHeaders(bugs[b].description) :
                   NothingFollows(bugs[b].description, i)
             THEN bugs[b].steps_to_reproduce = default_steps_to_reproduce
             ELSE \A k \in 1..Len(bugs[b].steps_to_reproduce) :
                     \E j \in 1..Len(bugs[b].description) :
                        /\ ~IsBlank(bugs[b].description[j])
                        /\ bugs[b].steps_to_reproduce[k] \in
                              {bugs[b].description[j], "It fails"}

\* C24: a bug was generated from a text whose 'Steps to Reproduce:' header is
\* followed by a blank line and the next header, and whose other two sections
\* are missing: all three fields hold their defaults.
BugFromEmptySections ==
    \E b \in DOMAIN bugs :
        /\ Len(bugs[b].description) = MaxLines
        /\ bugs[b].description[1] = "Steps to Reproduce:"
        /\ bugs[b].description[2] = "   "
        /\ bugs[b].description[3] = "Expected Behavior:"
        /\ bugs[b].steps_to_reproduce = default_steps_to_reproduce
        /\ bugs[b].actual_behavior = default_actual_behavior
        /\ bugs[b].expected_behavior = <<"It fails">>

\* C25: every sprint produced by generate_sprints_for_team(team_id, n), n >= 1,
\* is Active if the generation time lies within its [start_date, end_date] window
\* and Planned otherwise.
StatusFollowsWindow ==
    [][\A s \in DOMAIN sprints' \ DOMAIN sprints :
          LET sprint == sprints'[s]
          IN  sprint.status =
                 IF sprint.start_date[2] <= now /\ now <= sprint.end_date[2]
                 THEN "Active" ELSE "Planned"]_vars

\* C25: generate_sprints_for_team has produced a sprint whose window ended
\* before the generation time, with the status Completed, followed by the Active
\* sprint whose window ends at the generation time.
PastSprintCompleted ==
    \E s, last \in DOMAIN sprints :
        /\ sprints[s].status = "Completed"
        /\ sprints[s].end_date[2] < now
        /\ sprints[last].status = "Active"
        /\ sprints[last].start_date = sprints[s].end_date
        /\ sprints[last].end_date[2] = now

\* The status-change activities of a list of activities.
StatusChangesOf(activities) ==
    SelectSeq(activities, LAMBDA a : a.type = "ticket_status_change")

\* The steps from To Do up to and including the status S.
StepsUpTo(ticket, S) ==
    LET step(old, new) == [type |-> "ticket_status_change", ticket_id |-> ticket,
                           old_status |-> old, new_status |-> new]
    IN  CASE S = "To Do" -> <<>>
          [] S = "In Progress" -> <<step("To Do", "In Progress")>>
          [] S = "In Review" -> <<step("To Do", "In Progress"),
                                  step("In Progress", "In Review")>>
          [] S = "Done" -> <<step("To Do", "In Progress"),
                             step("In Progress", "In Review"),
                             step("In Review", "Done")>>

\* C26: for a ticket in status S, the status-change activities returned by
\* generate_ticket_activities are exactly the steps of the progression To Do,
\* In Progress, In Review, Done from To Do up to and including S, in that
\* order; a ticket in To Do gets none.
ProgressionUpToStatus ==
    [][\A t \in TicketIds, S \in {"To Do", "In Progress", "In Review", "Done"} :
          (GenerateTicketActivities(t, S) /\ raised' = NoneStr) =>
             StatusChangesOf(returned') = StepsUpTo(t, S)]_vars

\* C26: generate_ticket_activities has returned, for a registered ticket that
\* is In Progress, a step from To Do to In Progress followed by a step from
\* In Progress to Done.
InProgressReportedDone ==
    /\ Len(returned) = 3
    /\ returned[1].type = "ticket_create"
    /\ returned[1].ticket_id \in TicketIds
    /\ get_all_tickets[returned[1].ticket_id].status = "In Progress"
    /\ returned[2].old_status = "To Do" /\ returned[2].new_status = "In Progress"
    /\ returned[3].old_status = "In Progress" /\ returned[3].new_status = "Done"

\* How often the id t occurs in the list.
Occurrences(list, t) == Cardinality({k \in 1..Len(list) : list[k] = t})

\* C27: sprint membership is consistent after any sequence of
\* assign_ticket_to_sprint calls on registered sprints: the id of each assigned
\* ticket occurs exactly once in the list of the sprint its sprint_id names and
\* in no other sprint's list, so get_sprint_tickets(s) and the list of sprint s
\* name the same tickets.
MembershipConsistent ==
    \A s \in DOMAIN sprints :
        /\ Range(sprints[s].tickets) = get_sprint_tickets(s)
        /\ \A t \in get_sprint_tickets(s) :
              /\ Occurrences(sprints[s].tickets, t) = 1
              /\ \A other \in DOMAIN sprints \ {s} : t \notin Range(sprints[other].tickets)

\* C27: a ticket was assigned twice to one registered sprint and then to
\* another: the first sprint lists it twice, the second once, and its sprint_id
\* names the second.
ListedTwiceAndMoved ==
    \E t \in TicketIds, s, other \in DOMAIN sprints :
        /\ s /= other
        /\ sprints[s].tickets = <<t, t>>
        /\ sprints[other].tickets = <<t>>
        /\ get_all_tickets[t].sprint_id = other
        /\ get_sprint_tickets(s) = {}

\* A call of one of the five factories with the component c has raised.
FactoryRaised(c) ==
    /\ \/ \E p \in EpicPoints : GenerateEpic(c, p)
       \/ \E e \in DOMAIN epics \cup {None}, p \in StoryPoints : GenerateStory(e, c, p)
       \/ \E p \in TaskPoints : GenerateTask(c, p)
       \/ \E t \in DOMAIN tasks \cup {None}, p \in SubtaskPoints : GenerateSubtask(t, c, p)
       \/ \E p \in BugPoints : GenerateBug(c, p)
    /\ raised' /= NoneStr

\* C28: a factory call that fails leaves the generator unchanged: when
\* generate_epic, generate_story, generate_task, generate_subtask or generate_bug
\* raises, no ticket is registered in any collection and ticket_counter has the
\* value it had before the call.
FailedFactoryChangesNothing ==
    [][\A c \in ComponentArgs :
          FactoryRaised(c) => /\ dicts' = dicts
                              /\ ticket_counter' = ticket_counter]_vars

\* C28, amended: when a factory raises, no ticket is registered in any
\* collection, no registered ticket or sprint changes, and ticket_counter is
\* one more than before the call: the number of the failed ticket is used up.
FailedFactoryUsesUpOneId ==
    [][\A c \in ComponentArgs :
          FactoryRaised(c) => /\ dicts' = dicts
                              /\ sprints' = sprints
                              /\ sprint_counter' = sprint_counter
                              /\ ticket_counter' = ticket_counter + 1]_vars

\* C28: generate_subtask was called without a parent task on a generator with
\* an actor: the call raised, registered nothing and advanced ticket_counter.
FailedSubtaskAdvancedCounter ==
    /\ raised = "ValidationError"
    /\ team_members /= {}
    /\ TicketIds = {}
    /\ ticket_counter = InitialTicketCounter + 1

\* C29: Epic/Story linkage is two-way.  After generate_sprint_tickets returns,
\* every Story whose epic_link is the id of Epic E has its own id in
\* E.child_stories, and every id in an Epic's child_stories is a Story whose
\* epic_link is that Epic.
EpicStoryLinkageTwoWay ==
    (called /= None /\ raised = NoneStr) =>
        /\ \A st \in DOMAIN stories :
              stories[st].epic_link \in DOMAIN epics =>
                 st \in Range(epics[stories[st].epic_link].child_stories)
        /\ \A e \in DOMAIN epics :
              \A st \in Range(epics[e].child_stories) :
                 st \in DOMAIN stories /\ stories[st].epic_link = e

\* C29: generate_sprint_tickets has returned a Story linked to an Epic it
\* returned, and the Epic's child_stories is empty.
StoryMissingFromEpic ==
    /\ called /= None /\ raised = NoneStr
    /\ \E st, e \in Range(returned) :
          /\ st \in DOMAIN stories /\ e \in DOMAIN epics
          /\ stories[st].epic_link = e
          /\ epics[e].child_stories = <<>>

\* C30: the push loses no dependency.  For every depends_on entry A to B of the
\* ticket data where both A and B were created in JIRA, the push has created a
\* 'Depends' issue link between their keys, whichever of the two it created
\* first.
PushKeepsDependencies ==
    [][created_tickets' /= created_tickets =>
         \A A, B \in DOMAIN created_tickets' :
            B \in Range(get_all_tickets[A].depends_on) =>
               \E k \in 1..Len(issue_links') :
                  /\ issue_links'[k].type = "Depends"
                  /\ issue_links'[k].inwardIssue = created_tickets'[A]
                  /\ issue_links'[k].outwardIssue = created_tickets'[B]]_vars

\* C30: an Epic depends on a Task, both were created in JIRA, the Epic first,
\* and the only issue link is the 'Blocks' link from the Task to the Epic.
DependencyPushedAsBlocksOnly ==
    \E A \in DOMAIN epics, B \in DOMAIN tasks :
        /\ {A, B} \subseteq DOMAIN created_tickets
        /\ epics[A].depends_on = <<B>>
        /\ tasks[B].blocks = <<A>>
        /\ issue_links = <<[type |-> "Blocks", inwardIssue |-> created_tickets[B],
                            outwardIssue |-> created_tickets[A]]>>

====
